---- MODULE Spec2Model ----
(***************************************************************************)
(* ARMOR: normalized API trees, the structural diff engine                 *)
(* (astnormalizer.hpp: difference, intersection, diffNodes, diffTrees),    *)
(* the normalized context, and the change describer / report grouping      *)
(* (report_utils.cpp).                                                     *)
(*                                                                         *)
(* Strings are modelled as sequences of tokens: an identifier, a type      *)
(* spelling or a fixed piece of text is one token, and the scope separator *)
(* "::" is a token of its own, so that rfind("::"), substr and operator+   *)
(* are computed on the token sequence.  The empty string is <<>>.          *)
(*                                                                         *)
(* A JSON object is a function from field names to values, a JSON array a  *)
(* sequence, and a field that was never set is absent from the domain.     *)
(***************************************************************************)
EXTENDS Integers, Sequences, FiniteSets, TLC

VARIABLES
    pc,             \* position of the job: parse, diff, describe, group
    hashOrder,      \* order in which the standard library's unordered_multimap
                    \* finds elements of equal key (fixed by the build)
    roots1,         \* base context: m_rootApiNodes
    tree1,          \* base context: m_normalizedTree
    excludeNodes1,  \* base context: excludeNodes
    roots2,         \* head context: m_rootApiNodes
    tree2,          \* head context: m_normalizedTree
    excludeNodes2,  \* head context: excludeNodes
    diffs,          \* the difference tree returned by diffTrees
    headerPath,     \* the header path the report is generated for
    processed,      \* the atomic records of preprocess_api_changes
    grouped,        \* the grouped records of group_records_by_function
    arena,          \* tree builder: the APINodes created so far; a node is
                    \* referred to by its position, 0 is the null pointer
    m_normalizedTree, \* context under construction: key -> node
    m_rootApiNodes, \* context under construction: root nodes
    qualifiedNames, \* tree builder: QualifiedNameBuilder (buffer, offsets)
    nodeStack,      \* tree builder: the nodes of the open scopes
    openRecords,    \* visitor: the TraverseCXXRecordDecl calls in progress
    namespaces,     \* visitor: the namespaces TraverseNamespaceDecl returned from
    sessionContexts, \* session: file name -> the context created for it
    frontendActions, \* the NormalizeActions the factory has returned
    thrown,         \* what() of the exception in flight, <<>> when none
    unwrapPc,       \* type unwrapper: the function in its loop, or returned
    argument,       \* type unwrapper: the type the function was called with
    TL,             \* type unwrapper: the type at the current iteration
    modifiers,      \* unwrapTypeLoc: the modifier tokens pushed so far
    unwrapped       \* type unwrapper: the value returned

baseVars == <<roots1, tree1, excludeNodes1>>

headVars == <<roots2, tree2, excludeNodes2>>

reportVars == <<processed, grouped>>

jobVars == <<pc, hashOrder, headerPath, baseVars, headVars, diffs, reportVars>>

builderVars ==
    <<arena, m_normalizedTree, m_rootApiNodes, qualifiedNames, nodeStack, openRecords,
      namespaces>>

sessionVars == <<sessionContexts, frontendActions, thrown>>

typeVars == <<unwrapPc, argument, TL, modifiers, unwrapped>>

vars == <<jobVars, builderVars, sessionVars, typeVars>>

---------------------------------------------------------------------------
(* Strings and JSON values *)

SEP == "::"

EmptyString == <<>>

EmptyObject == [x \in {} |-> x]

\* basic_json::value(key, default)
Value(j, key, default) == IF key \in DOMAIN j THEN j[key] ELSE default

QUALIFIED_NAME == "qualifiedName"
NODE_TYPE == "nodeType"
CHILDREN == "children"
DATA_TYPE == "dataType"
TAG == "tag"
STORAGE_QUALIFIER == "storageQualifier"

ADDED == "added"
REMOVED == "removed"
MODIFIED == "modified"

---------------------------------------------------------------------------
(* API nodes *)

\* struct APINode: the attributes the diff reads.  children is the sequence
\* *children, or <<>> when the pointer is null.
APINode(kind, qualifiedName, dataType, storage, USR, children) ==
    [kind |-> kind, qualifiedName |-> qualifiedName, dataType |-> dataType,
     storage |-> storage, USR |-> USR, children |-> children]

\* enum class NodeKind
NodeKind ==
    {"Namespace", "Class", "Struct", "Union", "Enum", "Function", "Method",
     "Field", "Typedef", "TypeAlias", "Parameter", "TemplateParam", "BaseClass",
     "Variable", "ReturnType", "FunctionPointer", "Enumerator", "Macro", "If",
     "Elif", "Ifdef", "Ifndef", "Elifndef", "Else", "Endif", "Elifdef", "Define",
     "ConditionalCompilation", "Unknown"}

\* the kind string of a kind: the name of the enumerator
serialize(kind) == kind

byQualifiedName == "qualifiedName"

byDatatype == "dataType"

getKeyExtractor(node) ==
    IF node.kind = "Function" THEN byDatatype ELSE byQualifiedName

checkLayoutChange(node) == node.kind # "Enum"

\* a faulty test: a node counts as having children whenever the vector exists
hasChildrenIfAllocated(node) == TRUE

hasChildren(node) == node.children # <<>>

---------------------------------------------------------------------------
(* unordered_multimap<string, node>: the elements of b still in the map   *)
(* are the indices in map_b; elements of equal key are found in the order *)
(* the library keeps them.                                                *)

MultimapOrders == {"lifo", "fifo"}

SetMax(S) == CHOOSE x \in S : \A y \in S : y <= x

SetMin(S) == CHOOSE x \in S : \A y \in S : x <= y

\* map_b.find(key): 0 stands for map_b.end()
multimapFind(b, map_b, keyFunc, key) ==
    LET eq == {i \in map_b : b[i][keyFunc] = key}
    IN  IF eq = {} THEN 0
        ELSE IF hashOrder = "lifo" THEN SetMax(eq) ELSE SetMin(eq)

RECURSIVE intersectionLoop(_, _, _, _, _)
intersectionLoop(a, b, keyFunc, i, map_b) ==
    IF i > Len(a) THEN <<>>
    ELSE LET it == multimapFind(b, map_b, keyFunc, a[i][keyFunc])
         IN  IF it # 0
             THEN <<[first |-> a[i], second |-> b[it]]>>
                  \o intersectionLoop(a, b, keyFunc, i + 1, map_b \ {it})
             ELSE intersectionLoop(a, b, keyFunc, i + 1, map_b)

intersection(a, b, keyFunc) == intersectionLoop(a, b, keyFunc, 1, DOMAIN b)

RECURSIVE differenceLoop(_, _, _, _, _)
differenceLoop(a, b, keyFunc, i, map_b) ==
    IF i > Len(a) THEN <<>>
    ELSE LET it == multimapFind(b, map_b, keyFunc, a[i][keyFunc])
         IN  IF it # 0
             THEN differenceLoop(a, b, keyFunc, i + 1, map_b \ {it})
             ELSE <<a[i]>> \o differenceLoop(a, b, keyFunc, i + 1, map_b)

difference(a, b, keyFunc) == differenceLoop(a, b, keyFunc, 1, DOMAIN b)

---------------------------------------------------------------------------
(* Serialisation *)

\* a faulty serialiser: each child is inserted at the front of the array
RECURSIVE toJsonPrepending(_)
toJsonPrepending(node) ==
    (IF node.qualifiedName # EmptyString
        THEN QUALIFIED_NAME :> node.qualifiedName ELSE EmptyObject)
    @@ (NODE_TYPE :> serialize(node.kind))
    @@ (IF hasChildren(node)
        THEN CHILDREN :> [i \in 1..Len(node.children) |->
                 toJsonPrepending(node.children[Len(node.children) + 1 - i])]
        ELSE EmptyObject)
    @@ (IF node.dataType # EmptyString
        THEN DATA_TYPE :> node.dataType ELSE EmptyObject)

RECURSIVE toJson(_)
toJson(node) ==
    (IF node.qualifiedName # EmptyString
        THEN QUALIFIED_NAME :> node.qualifiedName ELSE EmptyObject)
    @@ (NODE_TYPE :> serialize(node.kind))
    @@ (IF hasChildren(node)
        THEN CHILDREN :> [i \in 1..Len(node.children) |-> toJson(node.children[i])]
        ELSE EmptyObject)
    @@ (IF node.dataType # EmptyString
        THEN DATA_TYPE :> node.dataType ELSE EmptyObject)

get_json_from_node(node, tag) == (TAG :> tag) @@ toJson(node)

---------------------------------------------------------------------------
(* Values returned by the diff functions.  Their callers tell an array   *)
(* from an object, so a returned value carries its JSON type: the value   *)
(* of an array is the sequence of its elements, the value of an object    *)
(* the record itself.                                                     *)

json_array(elems) == [is_array |-> TRUE, value |-> elems]

json_object(record) == [is_array |-> FALSE, value |-> record]

\* what a caller appends to its own array: nothing for an empty value, the
\* elements of an array, the value itself otherwise
spliced(j) ==
    IF j.value = <<>> THEN <<>>
    ELSE IF j.is_array THEN j.value ELSE <<j.value>>

---------------------------------------------------------------------------
(* Per-node attribute diff (APINode::diff): the empty array when the      *)
(* attributes agree, the array of the removed and the added attribute     *)
(* snapshot of a Function, and one modified record holding the two        *)
(* snapshots for any other kind.                                          *)

attributeSnapshot(node, tag) ==
    (TAG :> tag)
    @@ (IF node.storage # EmptyString
        THEN STORAGE_QUALIFIER :> node.storage ELSE EmptyObject)
    @@ (IF node.qualifiedName # EmptyString
        THEN QUALIFIED_NAME :> node.qualifiedName ELSE EmptyObject)
    @@ (NODE_TYPE :> serialize(node.kind))
    @@ (IF node.dataType # EmptyString
        THEN DATA_TYPE :> node.dataType ELSE EmptyObject)

APINodeDiff(a, b) ==
    IF a.kind = "Function"
    THEN IF a.storage = b.storage THEN json_array(<<>>)
         ELSE json_array(<<attributeSnapshot(a, REMOVED), attributeSnapshot(b, ADDED)>>)
    ELSE IF a.kind = b.kind /\ a.dataType = b.dataType /\ a.storage = b.storage
         THEN json_array(<<>>)
         ELSE json_object([qualifiedName |-> a.qualifiedName,
                           nodeType |-> serialize(a.kind),
                           children |-> <<attributeSnapshot(a, REMOVED),
                                          attributeSnapshot(b, ADDED)>>,
                           tag |-> MODIFIED])

---------------------------------------------------------------------------
(* The tree diff engine *)

RECURSIVE FlattenSeq(_)
FlattenSeq(ss) == IF ss = <<>> THEN <<>> ELSE Head(ss) \o FlattenSeq(Tail(ss))

\* a faulty diffNodes: the attribute diff of the pair itself is left out
RECURSIVE diffNodesWithoutAttributeDiff(_, _, _, _)
diffNodesWithoutAttributeDiff(a, b, t1, t2) ==
    IF hasChildren(a) /\ hasChildren(b)
    THEN LET removed_nodes == difference(a.children, b.children, byQualifiedName)
             added_nodes == difference(b.children, a.children, byQualifiedName)
             common_nodes == intersection(a.children, b.children, byQualifiedName)
             childrenDiff ==
                 [i \in 1..Len(removed_nodes) |->
                      get_json_from_node(removed_nodes[i], REMOVED)]
                 \o [i \in 1..Len(added_nodes) |->
                      get_json_from_node(added_nodes[i], ADDED)]
                 \o FlattenSeq([i \in 1..Len(common_nodes) |->
                      spliced(diffNodesWithoutAttributeDiff(common_nodes[i].first,
                                  common_nodes[i].second, t1, t2))])
         IN  IF childrenDiff # <<>>
             THEN json_object([qualifiedName |-> a.qualifiedName,
                               nodeType |-> serialize(a.kind),
                               children |-> childrenDiff,
                               tag |-> MODIFIED])
             ELSE json_array(<<>>)
    ELSE APINodeDiff(a, b)

\* json::array().emplace_back(diff) is a reference to the element appended
\* to the temporary array, so the value returned is a copy of diff itself
RECURSIVE diffNodes(_, _, _, _)
diffNodes(a, b, t1, t2) ==
    IF hasChildren(a) /\ hasChildren(b)
    THEN LET removed_nodes == difference(a.children, b.children, byQualifiedName)
             added_nodes == difference(b.children, a.children, byQualifiedName)
             common_nodes == intersection(a.children, b.children, byQualifiedName)
             childrenDiff ==
                 [i \in 1..Len(removed_nodes) |->
                      get_json_from_node(removed_nodes[i], REMOVED)]
                 \o [i \in 1..Len(added_nodes) |->
                      get_json_from_node(added_nodes[i], ADDED)]
                 \o FlattenSeq([i \in 1..Len(common_nodes) |->
                      spliced(diffNodes(common_nodes[i].first,
                                        common_nodes[i].second, t1, t2))])
                 \o spliced(APINodeDiff(a, b))
         IN  IF childrenDiff # <<>>
             THEN json_object([qualifiedName |-> a.qualifiedName,
                               nodeType |-> serialize(a.kind),
                               children |-> childrenDiff,
                               tag |-> MODIFIED])
             ELSE json_array(<<>>)
    ELSE APINodeDiff(a, b)

\* the records one base root contributes (first loop of diffTrees)
diffBaseRoot(rootNode1, t1, t2, ex1) ==
    IF rootNode1.qualifiedName \in ex1 THEN <<>>
    ELSE IF rootNode1.qualifiedName \notin DOMAIN t2
         THEN <<get_json_from_node(rootNode1, REMOVED)>>
         ELSE spliced(diffNodes(rootNode1, t2[rootNode1.qualifiedName], t1, t2))

\* a faulty second loop: the exclusion set of the head is not consulted
diffHeadRootUnfiltered(rootNode2, t1, ex2) ==
    IF rootNode2.qualifiedName \notin DOMAIN t1
    THEN <<get_json_from_node(rootNode2, ADDED)>>
    ELSE <<>>

\* the records one head root contributes (second loop of diffTrees)
diffHeadRoot(rootNode2, t1, ex2) ==
    IF rootNode2.qualifiedName \in ex2 THEN <<>>
    ELSE IF rootNode2.qualifiedName \notin DOMAIN t1
         THEN <<get_json_from_node(rootNode2, ADDED)>>
         ELSE <<>>

\* a faulty diffTrees: the loop over the head roots runs first
diffTreesHeadFirst(r1, r2, t1, t2, ex1, ex2) ==
    FlattenSeq([i \in 1..Len(r2) |-> diffHeadRoot(r2[i], t1, ex2)])
    \o FlattenSeq([i \in 1..Len(r1) |-> diffBaseRoot(r1[i], t1, t2, ex1)])

diffTrees(r1, r2, t1, t2, ex1, ex2) ==
    FlattenSeq([i \in 1..Len(r1) |-> diffBaseRoot(r1[i], t1, t2, ex1)])
    \o FlattenSeq([i \in 1..Len(r2) |-> diffHeadRoot(r2[i], t1, ex2)])

---------------------------------------------------------------------------
(* The normalized context (ASTNormalizedContext) *)

\* a faulty addNode: operator[] in place of try_emplace
addNodeOverwriting(tree, key, node) == (key :> node) @@ tree

\* m_normalizedTree.try_emplace(key, node): the map after the call
addNode(tree, key, node) ==
    IF key \in DOMAIN tree THEN tree ELSE (key :> node) @@ tree

\* try_emplace(...).second
addNodeResult(tree, key) == key \notin DOMAIN tree

\* m_normalizedTree[key] = node
addOrUpdateNode(tree, key, node) == (key :> node) @@ tree

\* m_rootApiNodes.push_back(rootNode)
addRootNode(roots, rootNode) ==
    IF rootNode = 0 THEN roots ELSE Append(roots, rootNode)

\* TreeBuilder::AddNode, the map part: a node is registered under its
\* unique key, a node without one is not registered.
registerNode(tree, node) ==
    IF node.USR = EmptyString THEN tree ELSE addNode(tree, node.USR, node)

\* a declaration and everything declared inside it, in source order
RECURSIVE registerSubtree(_, _)
RECURSIVE registerAll(_, _)
registerSubtree(tree, node) ==
    registerAll(registerNode(tree, node), node.children)

registerAll(tree, nodes) ==
    IF nodes = <<>> THEN tree
    ELSE registerAll(registerSubtree(tree, Head(nodes)), Tail(nodes))

\* the tree map after the traversal of a translation unit whose top-level
\* declarations are roots
buildTree(roots) == registerAll(EmptyObject, roots)

---------------------------------------------------------------------------
(* The change describer (report_utils.cpp) *)

\* a std::string held in a JSON string field of one token (nodeType, tag)
Str(s) == IF s = "" THEN <<>> ELSE <<s>>

\* the tokens of the model in the order std::string compares them
TokenOrder ==
    <<"(", ")", "::", "C", "Class", "Function", "Parameter", "ReturnType",
      "Unknown", "Variable", "a", "b", "c", "f", "g", "h", "int", "long",
      "mylib.h", "return", "static", "v", "void">>

TokenRank(t) == CHOOSE i \in DOMAIN TokenOrder : TokenOrder[i] = t

\* std::string operator<
RECURSIVE StrLess(_, _)
StrLess(s, t) ==
    IF s = <<>> THEN t # <<>>
    ELSE IF t = <<>> THEN FALSE
    ELSE IF Head(s) = Head(t) THEN StrLess(Tail(s), Tail(t))
    ELSE TokenRank(Head(s)) < TokenRank(Head(t))

\* std::pair<std::string, std::string> operator<
PairLess(k, l) == StrLess(k[1], l[1]) \/ (k[1] = l[1] /\ StrLess(k[2], l[2]))

\* the keys of a std::map in iteration order
RECURSIVE SortedKeys(_)
SortedKeys(S) ==
    IF S = {} THEN <<>>
    ELSE LET least == CHOOSE k \in S : \A l \in S \ {k} : PairLess(k, l)
         IN  <<least>> \o SortedKeys(S \ {least})

\* qn.rfind("::"): the position of the last separator, 0 when there is none
rfindSep(qn) ==
    LET at == {i \in DOMAIN qn : qn[i] = SEP}
    IN  IF at = {} THEN 0 ELSE SetMax(at)

qname_stem(qn) == IF rfindSep(qn) = 0 THEN qn ELSE SubSeq(qn, 1, rfindSep(qn) - 1)

\* a faulty leaf: the name is kept whole
nameUncut(qn) == qn

\* qn.substr(pos + 2) after the last separator, the whole name without one
nameLeaf(qn) == IF rfindSep(qn) = 0 THEN qn ELSE SubSeq(qn, rfindSep(qn) + 1, Len(qn))

\* a faulty category: every addition counts as new functionality, nested or not
to_change_category_any_addition(rawChange, isTopLevelAddition) ==
    IF rawChange = ADDED THEN "Functionality_changed" ELSE "Compatibility_changed"

to_change_category(rawChange, isTopLevelAddition) ==
    IF rawChange = ADDED /\ isTopLevelAddition
    THEN "Functionality_changed" ELSE "Compatibility_changed"

AtomicChange(headerfile, apiName, detail, rawChange, topLevel) ==
    [headerfile |-> headerfile, apiName |-> apiName, detail |-> detail,
     rawChange |-> rawChange, topLevel |-> topLevel]

to_record(c) ==
    LET category == to_change_category(c.rawChange, c.topLevel)
    IN  [headerfile |-> c.headerfile,
         name |-> c.apiName,
         description |-> c.detail,
         changetype |-> category,
         compatibility |-> IF category = "Compatibility_changed"
                           THEN "backward_incompatible" ELSE "backward_compatible"]

\* a faulty rename test: the names are compared instead of the types
looks_like_rename_by_name(removedParam, addedParam) ==
    Value(removedParam, QUALIFIED_NAME, EmptyString)
        = Value(addedParam, QUALIFIED_NAME, EmptyString)

looks_like_rename(removedParam, addedParam) ==
    IF Value(removedParam, NODE_TYPE, "") # "Parameter"
       \/ Value(addedParam, NODE_TYPE, "") # "Parameter"
    THEN FALSE
    ELSE /\ Value(removedParam, DATA_TYPE, EmptyString) # EmptyString
         /\ Value(removedParam, DATA_TYPE, EmptyString)
                = Value(addedParam, DATA_TYPE, EmptyString)

\* the rows add_attr_change appends
add_attr_change(headerFile, funcName, attr, oldV, newV) ==
    IF oldV = newV THEN <<>>
    ELSE <<AtomicChange(headerFile, funcName,
              IF oldV # EmptyString /\ newV = EmptyString
              THEN <<"Function attribute ", attr, " removed '">> \o oldV \o <<"'">>
              ELSE IF oldV = EmptyString /\ newV # EmptyString
              THEN <<"Function attribute ", attr, " added '">> \o newV \o <<"'">>
              ELSE <<"Function attribute ", attr, " changed from '">> \o oldV
                       \o <<"' to '">> \o newV \o <<"'">>,
              "attr_changed", FALSE)>>

inline_to_str(j) ==
    IF "inline" \in DOMAIN j /\ j["inline"] \in BOOLEAN
    THEN (IF j["inline"] THEN <<"true">> ELSE <<"false">>)
    ELSE EmptyString

\* a null snapshot is an absent one, modelled by the empty object
diff_function_attributes(headerFile, funcName, removedFn, addedFn) ==
    add_attr_change(headerFile, funcName, STORAGE_QUALIFIER,
                    Value(removedFn, STORAGE_QUALIFIER, EmptyString),
                    Value(addedFn, STORAGE_QUALIFIER, EmptyString))
    \o add_attr_change(headerFile, funcName, "functionCallingConvention",
                    Value(removedFn, "functionCallingConvention", EmptyString),
                    Value(addedFn, "functionCallingConvention", EmptyString))
    \o add_attr_change(headerFile, funcName, "inline",
                    inline_to_str(removedFn), inline_to_str(addedFn))

\* the last child of the sequence with the tag, the empty sequence (null)
\* when no child has it
lastTagged(kids, tag) ==
    LET at == {i \in DOMAIN kids : Value(kids[i], TAG, "") = tag}
    IN  IF at = {} THEN <<>> ELSE <<kids[SetMax(at)]>>

diff_nested_mod_node(headerFile, apiName, modNode) ==
    LET kids == Value(modNode, CHILDREN, <<>>)
        removed == lastTagged(kids, REMOVED)
        added == lastTagged(kids, ADDED)
        nodeType == Value(modNode, NODE_TYPE, "")
    IN  IF removed # <<>> /\ added # <<>>
        THEN LET subType == Value(removed[1], NODE_TYPE, nodeType)
                 leaf == nameLeaf(Value(removed[1], QUALIFIED_NAME, EmptyString))
                 dtR == Value(removed[1], DATA_TYPE, EmptyString)
                 dtA == Value(added[1], DATA_TYPE, EmptyString)
             IN  <<AtomicChange(headerFile, apiName,
                      IF subType = "ReturnType"
                      THEN <<"Return type changed from '">> \o dtR
                               \o <<"' to '">> \o dtA \o <<"'">>
                      ELSE Str(subType) \o <<" '">> \o leaf
                               \o <<"' type changed from '">> \o dtR
                               \o <<"' to '">> \o dtA \o <<"'">>,
                      MODIFIED, FALSE)>>
        ELSE <<>>

\* the positions of the parameters in the iteration order of the
\* std::multimap keyed by dataType: by key, equal keys in insertion order
RECURSIVE byTypeOrder(_, _)
byTypeOrder(params, S) ==
    IF S = {} THEN <<>>
    ELSE LET key(i) == Value(params[i], DATA_TYPE, EmptyString)
             least == CHOOSE i \in S : \A j \in S \ {i} :
                          \/ StrLess(key(i), key(j))
                          \/ (key(i) = key(j) /\ i < j)
         IN  <<least>> \o byTypeOrder(params, S \ {least})

\* a faulty pairing: the added parameters already matched are not skipped
RECURSIVE renamePairsForgetful(_, _, _, _, _, _)
renamePairsForgetful(removedParams, addedParams, removedByType, addedByType, k, matchedAdded) ==
    IF k > Len(removedByType) THEN <<>>
    ELSE LET r == removedByType[k]
             key == Value(removedParams[r], DATA_TYPE, EmptyString)
             range == SelectSeq(addedByType,
                          LAMBDA a : /\ Value(addedParams[a], DATA_TYPE, EmptyString) = key
                                     /\ looks_like_rename(removedParams[r], addedParams[a]))
         IN  IF range = <<>>
             THEN renamePairsForgetful(removedParams, addedParams, removedByType,
                                       addedByType, k + 1, matchedAdded)
             ELSE <<<<r, range[1]>>>>
                  \o renamePairsForgetful(removedParams, addedParams, removedByType,
                                          addedByType, k + 1, matchedAdded)

\* the rename pairs <<removed position, added position>> in the order the
\* first loop of diff_direct_param_nodes finds them
RECURSIVE renamePairs(_, _, _, _, _, _)
renamePairs(removedParams, addedParams, removedByType, addedByType, k, matchedAdded) ==
    IF k > Len(removedByType) THEN <<>>
    ELSE LET r == removedByType[k]
             key == Value(removedParams[r], DATA_TYPE, EmptyString)
             range == SelectSeq(addedByType,
                          LAMBDA a : /\ Value(addedParams[a], DATA_TYPE, EmptyString) = key
                                     /\ a \notin matchedAdded
                                     /\ looks_like_rename(removedParams[r], addedParams[a]))
         IN  IF range = <<>>
             THEN renamePairs(removedParams, addedParams, removedByType, addedByType,
                              k + 1, matchedAdded)
             ELSE <<<<r, range[1]>>>>
                  \o renamePairs(removedParams, addedParams, removedByType, addedByType,
                                 k + 1, matchedAdded \cup {range[1]})

diff_direct_param_nodes(headerFile, apiName, removedParams, addedParams) ==
    LET removedByType == byTypeOrder(removedParams, DOMAIN removedParams)
        addedByType == byTypeOrder(addedParams, DOMAIN addedParams)
        pairs == renamePairs(removedParams, addedParams, removedByType, addedByType, 1, {})
        matchedRemoved == {pairs[i][1] : i \in DOMAIN pairs}
        matchedAdded == {pairs[i][2] : i \in DOMAIN pairs}
        leaf(p) == nameLeaf(Value(p, QUALIFIED_NAME, EmptyString))
        type(p) == Value(p, DATA_TYPE, EmptyString)
        unmatchedRemoved == SelectSeq(removedByType, LAMBDA r : r \notin matchedRemoved)
        unmatchedAdded == SelectSeq(addedByType, LAMBDA a : a \notin matchedAdded)
    IN  [i \in DOMAIN pairs |->
            AtomicChange(headerFile, apiName,
                <<"Parameter renamed from '">> \o leaf(removedParams[pairs[i][1]])
                    \o <<"' to '">> \o leaf(addedParams[pairs[i][2]])
                    \o <<"' (type '">> \o type(removedParams[pairs[i][1]]) \o <<"')">>,
                MODIFIED, FALSE)]
        \o [i \in DOMAIN unmatchedRemoved |->
            AtomicChange(headerFile, apiName,
                <<"Parameter '">> \o leaf(removedParams[unmatchedRemoved[i]])
                    \o <<"' removed (type '">>
                    \o type(removedParams[unmatchedRemoved[i]]) \o <<"')">>,
                REMOVED, FALSE)]
        \o [i \in DOMAIN unmatchedAdded |->
            AtomicChange(headerFile, apiName,
                <<"Parameter '">> \o leaf(addedParams[unmatchedAdded[i]])
                    \o <<"' added (type '">>
                    \o type(addedParams[unmatchedAdded[i]]) \o <<"')">>,
                ADDED, FALSE)]

\* kind + " added: '" + qn + "'" and its variants with the type appended
presenceLine(kind, verb, qn, dt) ==
    IF dt # EmptyString
    THEN Str(kind) \o <<verb>> \o qn \o <<"' with type '">> \o dt \o <<"'">>
    ELSE Str(kind) \o <<verb>> \o qn \o <<"'">>

typeChangeLine(kind, displayQN, dtR, dtA) ==
    IF dtR # EmptyString /\ dtA # EmptyString
    THEN Str(kind) \o <<" '">> \o displayQN \o <<"' type changed from '">>
             \o dtR \o <<"' to '">> \o dtA \o <<"'">>
    ELSE Str(kind) \o <<" modified: '">> \o displayQN \o <<"'">>

\* Key{qualifiedName, nodeType} of a record
itemKey(j) == <<Value(j, QUALIFIED_NAME, EmptyString), Str(Value(j, NODE_TYPE, ""))>>

\* std::map<Key, json> filled by items[key] = child for every child with the
\* tag, in child order: the last child of a key stays
itemsByKey(kids, tag) ==
    LET tagged == {i \in DOMAIN kids : Value(kids[i], TAG, "") = tag}
    IN  [k \in {itemKey(kids[i]) : i \in tagged} |->
            kids[SetMax({i \in tagged : itemKey(kids[i]) = k})]]

\* a faulty display name: the qualified name whatever the kind
displayNameQualified(j) == Value(j, QUALIFIED_NAME, EmptyString)

displayName(j) ==
    IF Value(j, NODE_TYPE, "") = "ReturnType"
    THEN qname_stem(Value(j, QUALIFIED_NAME, EmptyString))
    ELSE Value(j, QUALIFIED_NAME, EmptyString)

\* the lines for the grandchildren of a modified child (simple pairing)
pairedGrandchildren(gkids) ==
    LET rem == itemsByKey(gkids, REMOVED)
        add == itemsByKey(gkids, ADDED)
        remKeys == SortedKeys(DOMAIN rem)
        addKeys == SelectSeq(SortedKeys(DOMAIN add), LAMBDA k : k \notin DOMAIN rem)
    IN  [i \in DOMAIN remKeys |->
            LET r == rem[remKeys[i]]
            IN  IF remKeys[i] \in DOMAIN add
                THEN typeChangeLine(Value(r, NODE_TYPE, ""), displayName(r),
                                    Value(r, DATA_TYPE, EmptyString),
                                    Value(add[remKeys[i]], DATA_TYPE, EmptyString))
                ELSE presenceLine(Value(r, NODE_TYPE, ""), " removed: '",
                                  Value(r, QUALIFIED_NAME, EmptyString),
                                  Value(r, DATA_TYPE, EmptyString))]
        \o [i \in DOMAIN addKeys |->
            LET a == add[addKeys[i]]
            IN  presenceLine(Value(a, NODE_TYPE, ""), " added: '",
                             Value(a, QUALIFIED_NAME, EmptyString),
                             Value(a, DATA_TYPE, EmptyString))]

RECURSIVE emit_added_removed_children(_, _)
emit_added_removed_children(node, parentTag) ==
    LET children == Value(node, CHILDREN, <<>>)
    IN  FlattenSeq([i \in DOMAIN children |->
            LET ch == children[i]
                chType == Value(ch, NODE_TYPE, "")
                chQN == Value(ch, QUALIFIED_NAME, EmptyString)
                chDT == Value(ch, DATA_TYPE, EmptyString)
                chTag == Value(ch, TAG, "")
                effTag == IF chTag = "" THEN parentTag ELSE chTag
                own == IF effTag = ADDED
                       THEN <<presenceLine(chType, " added: '", chQN, chDT)>>
                       ELSE IF effTag = REMOVED
                       THEN <<presenceLine(chType, " removed: '", chQN, chDT)>>
                       ELSE IF effTag = MODIFIED
                       THEN pairedGrandchildren(Value(ch, CHILDREN, <<>>))
                       ELSE IF chDT # EmptyString
                       THEN <<Str(chType) \o <<" present: '">> \o chQN
                                  \o <<"' (type '">> \o chDT \o <<"')">>>>
                       ELSE <<Str(chType) \o <<" present: '">> \o chQN \o <<"'">>>>
            IN  own \o (IF Value(ch, CHILDREN, <<>>) # <<>>
                        THEN emit_added_removed_children(ch, effTag)
                        ELSE <<>>)])

\* the relaxed pairing of a removed Parameter: the first added Parameter, in
\* key order, not yet consumed, whose name has the same stem
bestAddedKey(removed, addedItems, consumedAddedKeys) ==
    SelectSeq(SortedKeys(DOMAIN addedItems),
        LAMBDA aKey :
            /\ Value(addedItems[aKey], NODE_TYPE, "") = "Parameter"
            /\ aKey \notin consumedAddedKeys
            /\ qname_stem(Value(addedItems[aKey], QUALIFIED_NAME, EmptyString))
                   = qname_stem(Value(removed, QUALIFIED_NAME, EmptyString)))

\* the loop over removedItems: the lines it adds and the added keys it
\* consumes
RECURSIVE removedItemsLoop(_, _, _, _, _)
removedItemsLoop(keys, k, removedItems, addedItems, consumedAddedKeys) ==
    IF k > Len(keys) THEN [lines |-> <<>>, consumed |-> consumedAddedKeys]
    ELSE LET removed == removedItems[keys[k]]
             subNodeType == Value(removed, NODE_TYPE, "")
             paramQN == Value(removed, QUALIFIED_NAME, EmptyString)
             dtR == Value(removed, DATA_TYPE, EmptyString)
             best == IF subNodeType = "Parameter"
                     THEN bestAddedKey(removed, addedItems, consumedAddedKeys)
                     ELSE <<>>
             line == IF keys[k] \in DOMAIN addedItems
                     THEN typeChangeLine(subNodeType, displayName(removed), dtR,
                              Value(addedItems[keys[k]], DATA_TYPE, EmptyString))
                     ELSE IF best # <<>>
                     THEN IF dtR # EmptyString
                             /\ Value(addedItems[best[1]], DATA_TYPE, EmptyString) # EmptyString
                          THEN <<"Parameter modified: '">> \o qname_stem(paramQN)
                                   \o <<"' type changed from '">> \o dtR \o <<"' to '">>
                                   \o Value(addedItems[best[1]], DATA_TYPE, EmptyString)
                                   \o <<"'">>
                          ELSE <<"Parameter modified: '">> \o qname_stem(paramQN) \o <<"'">>
                     ELSE presenceLine(subNodeType, " removed: '", paramQN, dtR)
             consumed == IF keys[k] \in DOMAIN addedItems
                         THEN consumedAddedKeys \cup {keys[k]}
                         ELSE IF best # <<>> THEN consumedAddedKeys \cup {best[1]}
                         ELSE consumedAddedKeys
             rest == removedItemsLoop(keys, k + 1, removedItems, addedItems, consumed)
         IN  [lines |-> <<line>> \o rest.lines, consumed |-> rest.consumed]

RECURSIVE describe_non_function_recursive(_)
describe_non_function_recursive(node) ==
    LET tag == Value(node, TAG, "")
        nodeType == Value(node, NODE_TYPE, "")
        qualifiedName == Value(node, QUALIFIED_NAME, EmptyString)
        dataType == Value(node, DATA_TYPE, EmptyString)
        children == Value(node, CHILDREN, <<>>)
    IN  IF tag = ADDED
        THEN <<presenceLine(nodeType, " added: '", qualifiedName, dataType)>>
             \o emit_added_removed_children(node, ADDED)
        ELSE IF tag = REMOVED
        THEN <<presenceLine(nodeType, " removed: '", qualifiedName, dataType)>>
             \o emit_added_removed_children(node, REMOVED)
        ELSE IF tag # MODIFIED THEN <<>>
        ELSE LET nested == FlattenSeq([i \in DOMAIN children |->
                     IF Value(children[i], TAG, "") = MODIFIED
                        \/ (Value(children[i], TAG, "") = "" /\ CHILDREN \in DOMAIN children[i])
                     THEN describe_non_function_recursive(children[i])
                     ELSE <<>>])
                 removedItems == itemsByKey(children, REMOVED)
                 addedItems == itemsByKey(children, ADDED)
                 loop == removedItemsLoop(SortedKeys(DOMAIN removedItems), 1,
                                          removedItems, addedItems, {})
                 addKeys == SelectSeq(SortedKeys(DOMAIN addedItems),
                                LAMBDA k : k \notin DOMAIN removedItems
                                           /\ k \notin loop.consumed)
             IN  nested \o loop.lines
                 \o [i \in DOMAIN addKeys |->
                        presenceLine(Value(addedItems[addKeys[i]], NODE_TYPE, ""),
                                     " added: '",
                                     Value(addedItems[addKeys[i]], QUALIFIED_NAME, EmptyString),
                                     Value(addedItems[addKeys[i]], DATA_TYPE, EmptyString))]

\* the lines joined by "\n"
RECURSIVE joinLines(_)
joinLines(lines) ==
    IF lines = <<>> THEN <<>>
    ELSE IF Len(lines) = 1 THEN lines[1]
    ELSE lines[1] \o <<"\n">> \o joinLines(Tail(lines))

generate_non_function_description(item) ==
    LET lines == describe_non_function_recursive(item)
    IN  IF lines = <<>>
        THEN Str(Value(item, NODE_TYPE, "")) \o <<" ">> \o Str(Value(item, TAG, ""))
                 \o <<": '">> \o Value(item, QUALIFIED_NAME, EmptyString) \o <<"'">>
        ELSE joinLines(lines)

\* the rows as they are, nothing standing in for an empty list
rowsWithoutFallback(rows, header_file_path, api_name) == rows

\* the rows of a modified function, the generic row when nothing specific
\* was detected
rowsOrFallback(rows, header_file_path, api_name) ==
    IF rows = <<>>
    THEN <<AtomicChange(header_file_path, api_name,
                        <<"Function modified">>, MODIFIED, FALSE)>>
    ELSE rows

\* the records of one top-level entry of the difference array
describeChange(change, header_file_path) ==
    LET nodeType == Value(change, NODE_TYPE, "")
        tag == Value(change, TAG, "")
        api_name == Value(change, QUALIFIED_NAME, <<"Unknown">>)
        children == Value(change, CHILDREN, <<>>)
        isSnapshot(ch, t) ==
            Value(ch, NODE_TYPE, "") = "Function" /\ Value(ch, TAG, "") = t
        isNestedMod(ch) ==
            /\ ~(isSnapshot(ch, REMOVED) \/ isSnapshot(ch, ADDED))
            /\ Value(ch, NODE_TYPE, "") \in {"Parameter", "ReturnType"}
            /\ Value(ch, TAG, "") = MODIFIED
        isDirectParam(ch, t) ==
            Value(ch, NODE_TYPE, "") = "Parameter" /\ Value(ch, TAG, "") = t
        removedSnapshots == SelectSeq(children, LAMBDA ch : isSnapshot(ch, REMOVED))
        addedSnapshots == SelectSeq(children, LAMBDA ch : isSnapshot(ch, ADDED))
        removedFn == IF removedSnapshots = <<>> THEN EmptyObject
                     ELSE removedSnapshots[Len(removedSnapshots)]
        addedFn == IF addedSnapshots = <<>> THEN EmptyObject
                   ELSE addedSnapshots[Len(addedSnapshots)]
        directRemovedParams == SelectSeq(children, LAMBDA ch : isDirectParam(ch, REMOVED))
        directAddedParams == SelectSeq(children, LAMBDA ch : isDirectParam(ch, ADDED))
        rows ==
            FlattenSeq([i \in DOMAIN children |->
                IF isNestedMod(children[i])
                THEN diff_nested_mod_node(header_file_path, api_name, children[i])
                ELSE <<>>])
            \o (IF removedSnapshots # <<>> \/ addedSnapshots # <<>>
                THEN diff_function_attributes(header_file_path, api_name, removedFn, addedFn)
                ELSE <<>>)
            \o (IF directAddedParams # <<>> \/ directRemovedParams # <<>>
                THEN diff_direct_param_nodes(header_file_path, api_name,
                                             directRemovedParams, directAddedParams)
                ELSE <<>>)
        allRows == rowsOrFallback(rows, header_file_path, api_name)
    IN  IF nodeType # "Function"
        THEN <<to_record(AtomicChange(header_file_path, api_name,
                             generate_non_function_description(change),
                             tag, tag = ADDED))>>
        ELSE IF tag = ADDED
        THEN <<to_record(AtomicChange(header_file_path, api_name,
                             <<"Function added">>, ADDED, TRUE))>>
        ELSE IF tag = REMOVED
        THEN <<to_record(AtomicChange(header_file_path, api_name,
                             <<"Function removed">>, REMOVED, FALSE))>>
        ELSE [i \in DOMAIN allRows |->
                 to_record([allRows[i] EXCEPT !.topLevel = FALSE])]

\* a faulty preprocess_api_changes: the records of an entry are put in
\* front of those of the entries before it
preprocessNewestFirst(api_differences, header_file_path) ==
    FlattenSeq([i \in DOMAIN api_differences |->
                   describeChange(api_differences[Len(api_differences) + 1 - i],
                                  header_file_path)])

preprocess_api_changes(api_differences, header_file_path) ==
    FlattenSeq([i \in DOMAIN api_differences |->
                   describeChange(api_differences[i], header_file_path)])

\* the bucket of a key: the rows of the key, in input order
bucketRows(rows, k) ==
    SelectSeq(rows, LAMBDA row : <<Value(row, "headerfile", EmptyString),
                                   Value(row, "name", EmptyString)>> = k)

\* a faulty grouping: one record per row, rows of one API are not merged
group_records_per_row(rows) ==
    [i \in DOMAIN rows |->
        LET compat == Value(rows[i], "changetype", "") = "Compatibility_changed"
        IN  [headerfile |-> Value(rows[i], "headerfile", EmptyString),
             name |-> Value(rows[i], "name", EmptyString),
             description |-> Value(rows[i], "description", EmptyString),
             changetype |-> IF compat THEN "Compatibility Changed"
                            ELSE "Functionality Added",
             compatibility |-> IF compat THEN "backward_incompatible"
                               ELSE "backward_compatible"]]

group_records_by_function(rows) ==
    LET keys == SortedKeys({<<Value(rows[i], "headerfile", EmptyString),
                              Value(rows[i], "name", EmptyString)>> : i \in DOMAIN rows})
    IN  [n \in DOMAIN keys |->
            LET bucket == bucketRows(rows, keys[n])
                descriptions ==
                    SelectSeq([i \in DOMAIN bucket |->
                                  Value(bucket[i], "description", EmptyString)],
                              LAMBDA d : d # EmptyString)
                compat == \E i \in DOMAIN bucket :
                              Value(bucket[i], "changetype", "") = "Compatibility_changed"
            IN  [headerfile |-> keys[n][1],
                 name |-> keys[n][2],
                 description |-> joinLines(descriptions),
                 changetype |-> IF compat THEN "Compatibility Changed"
                                ELSE "Functionality Added",
                 compatibility |-> IF compat THEN "backward_incompatible"
                                   ELSE "backward_compatible"]]

---------------------------------------------------------------------------
(* The headers the model parses *)

MaxRoots == 2

MaxChildren == 2

MaxParams == 2

Types == {<<"int">>, <<"long">>}

SeqsUpTo(S, n) == UNION {[1..k -> S] : k \in 0..n}

QName(scope, name) == IF scope = <<>> THEN <<name>> ELSE scope \o <<SEP, name>>

\* a declaration keyed by its qualified name
Decl(kind, qn, dataType, storage, children) ==
    APINode(kind, qn, dataType, storage, qn, children)

Parameter(fn, name, type) == Decl("Parameter", QName(fn, name), type, <<>>, <<>>)

ReturnType(fn, type) == Decl("ReturnType", QName(fn, "return"), type, <<>>, <<>>)

Signature(ret, params) ==
    ret \o <<"(">> \o FlattenSeq([i \in 1..Len(params) |-> params[i].dataType]) \o <<")">>

\* a function: its ReturnType child, then one Parameter child per parameter
Function(scope, name, storage, ret, params) ==
    Decl("Function", QName(scope, name), Signature(ret, params), storage,
         <<ReturnType(QName(scope, name), ret)>> \o params)

\* the functions of one scope: the overloads void f(int a) and
\* void f(long b), void g() and static void g()
\* the declarations of one scope compile together: two of them have the same
\* name only when they are overloads, functions of different signatures
WellFormed(decls) ==
    \A i, j \in DOMAIN decls :
        (i # j /\ decls[i].qualifiedName = decls[j].qualifiedName)
            => /\ decls[i].kind = "Function" /\ decls[j].kind = "Function"
               /\ decls[i].dataType # decls[j].dataType

Scopes(decls, n) == {ds \in SeqsUpTo(decls, n) : WellFormed(ds)}

\* two overloads of f and a function g
Functions(scope) ==
    { Function(scope, "f", <<>>, <<"void">>,
               <<Parameter(QName(scope, "f"), "a", <<"int">>)>>),
      Function(scope, "f", <<>>, <<"void">>,
               <<Parameter(QName(scope, "f"), "b", <<"long">>)>>),
      Function(scope, "g", <<>>, <<"void">>, <<>>) }

StaticFunctions == { Function(<<>>, "g", <<"static">>, <<"void">>, <<>>) }

ParamNames == {"a", "b", "c"}

\* the revisions of a function h whose parameters are all of type int
ParamFunctions ==
    { Function(<<>>, "h", <<>>, <<"void">>, ps) :
          ps \in Scopes({Parameter(<<"h">>, n, <<"int">>) : n \in ParamNames}, MaxParams) }

\* a revision of h that changes storage class, return type and parameter
RevisedFunctions ==
    { Function(<<>>, "h", <<"static">>, <<"long">>,
               <<Parameter(<<"h">>, "b", <<"long">>)>>) }

Variables == { Decl("Variable", <<"v">>, t, <<>>, <<>>) : t \in Types }

Classes ==
    { Decl("Class", <<"C">>, <<>>, <<>>, ms) : ms \in Scopes(Functions(<<"C">>), MaxChildren) }

\* a revision of class C whose member g returns long
RevisedClasses ==
    { Decl("Class", <<"C">>, <<>>, <<>>,
           <<Function(<<"C">>, "g", <<>>, <<"long">>, <<>>)>>) }

RootDecls == Functions(<<>>) \cup StaticFunctions \cup Variables

\* the top-level declarations of a header
Headers ==
    Scopes(RootDecls, MaxRoots) \cup {<<c>> : c \in Classes \cup RevisedClasses}
        \cup {<<h>> : h \in ParamFunctions \cup RevisedFunctions}

HeaderPaths == {<<"mylib.h">>}

ExclusionSets == { {}, {<<"f">>, <<"C", SEP, "f">>} }

---------------------------------------------------------------------------
(* The job: parse base, parse head, diff, report *)

InitJob ==
    /\ pc = "start"
    /\ hashOrder \in MultimapOrders
    /\ roots1 = <<>> /\ tree1 = EmptyObject /\ excludeNodes1 = {}
    /\ roots2 = <<>> /\ tree2 = EmptyObject /\ excludeNodes2 = {}
    /\ diffs = <<>>
    /\ headerPath \in HeaderPaths
    /\ processed = <<>> /\ grouped = <<>>

\* TreeBuilder(context) on ASTNormalizedContext()
InitBuilder ==
    /\ arena = <<>>
    /\ m_normalizedTree = EmptyObject
    /\ m_rootApiNodes = <<>>
    /\ qualifiedNames = [buffer |-> <<>>, offsets |-> <<>>]
    /\ nodeStack = <<>>
    /\ openRecords = <<>>
    /\ namespaces = {}

\* a session without contexts, no action created, no exception
InitSession ==
    /\ sessionContexts = EmptyObject
    /\ frontendActions = <<>>
    /\ thrown = EmptyString

\* a null type: a type is the sequence of its levels, from the outermost
\* one to the terminal one it is built on
NullType == <<>>

\* no call of the type unwrapper in progress
InitTypeUnwrapper ==
    /\ unwrapPc = "idle"
    /\ argument = NullType
    /\ TL = NullType
    /\ modifiers = <<>>
    /\ unwrapped = [prefix |-> <<>>, terminal |-> NullType]

Init == InitJob /\ InitBuilder /\ InitSession /\ InitTypeUnwrapper

NormalizeBase ==
    /\ pc = "start"
    /\ \E h \in Headers, ex \in ExclusionSets :
          /\ roots1' = h
          /\ tree1' = buildTree(h)
          /\ excludeNodes1' = ex
    /\ pc' = "base"
    /\ UNCHANGED <<hashOrder, headerPath, headVars, diffs, reportVars, builderVars, sessionVars, typeVars>>

NormalizeHead ==
    /\ pc = "base"
    /\ \E h \in Headers, ex \in ExclusionSets :
          /\ roots2' = h
          /\ tree2' = buildTree(h)
          /\ excludeNodes2' = ex
    /\ pc' = "head"
    /\ UNCHANGED <<hashOrder, headerPath, baseVars, diffs, reportVars, builderVars, sessionVars, typeVars>>

DiffTrees ==
    /\ pc = "head"
    /\ diffs' = diffTrees(roots1, roots2, tree1, tree2, excludeNodes1, excludeNodes2)
    /\ pc' = "diffed"
    /\ UNCHANGED <<hashOrder, headerPath, baseVars, headVars, reportVars, builderVars, sessionVars, typeVars>>

\* the report generator: the atomic records of the difference tree, then the
\* grouped records the report is written from
ReportGenerator ==
    /\ pc = "diffed"
    /\ processed' = preprocess_api_changes(diffs, headerPath)
    /\ grouped' = group_records_by_function(processed')
    /\ pc' = "reported"
    /\ UNCHANGED <<hashOrder, headerPath, baseVars, headVars, diffs, builderVars, sessionVars, typeVars>>

Next == NormalizeBase \/ NormalizeHead \/ DiffTrees \/ ReportGenerator

Spec == Init /\ [][Next]_vars

---------------------------------------------------------------------------
(* The report generator on the difference array of a file *)

MaxEntries == 2

functionSnapshot(tag, storage) ==
    (TAG :> tag) @@ (STORAGE_QUALIFIER :> storage)
    @@ [qualifiedName |-> <<"f">>, nodeType |-> "Function"]

childEntry(nodeType, name, dataType, tag) ==
    [qualifiedName |-> <<"f", SEP>> \o name, nodeType |-> nodeType,
     dataType |-> dataType, tag |-> tag]

modifiedChild(nodeType, name, children) ==
    [qualifiedName |-> <<"f", SEP>> \o name, nodeType |-> nodeType,
     children |-> children, tag |-> MODIFIED]

\* the children a modified Function entry of the file carries
FunctionChildren ==
    { <<>>,
      <<functionSnapshot(REMOVED, <<"static">>), functionSnapshot(ADDED, <<"static">>)>>,
      <<functionSnapshot(REMOVED, <<>>), functionSnapshot(ADDED, <<"static">>)>>,
      <<childEntry("ReturnType", <<"return">>, <<"int">>, ADDED)>>,
      <<modifiedChild("Parameter", <<"a">>, <<>>)>>,
      <<modifiedChild("Parameter", <<"a">>,
            <<childEntry("Parameter", <<"a">>, <<"int">>, REMOVED),
              childEntry("Parameter", <<"a">>, <<"long">>, ADDED)>>)>>,
      <<modifiedChild("ReturnType", <<"return">>,
            <<childEntry("ReturnType", <<"return">>, <<"int">>, REMOVED),
              childEntry("ReturnType", <<"return">>, <<"long">>, ADDED)>>)>>,
      <<childEntry("Parameter", <<"a">>, <<"int">>, REMOVED),
        childEntry("Parameter", <<"b">>, <<"int">>, ADDED)>>,
      <<childEntry("Parameter", <<"b">>, <<"long">>, ADDED)>>,
      <<functionSnapshot(REMOVED, <<>>), functionSnapshot(ADDED, <<"static">>),
        childEntry("Parameter", <<"b">>, <<"long">>, ADDED)>> }

\* the children a modified entry of a function pointer f carries: removed
\* and added parameters
PointerChildren ==
    { <<childEntry("Parameter", <<"b">>, <<"long">>, ADDED)>>,
      <<childEntry("Parameter", <<"b">>, <<"int">>, REMOVED),
        childEntry("Parameter", <<"b">>, <<"long">>, ADDED)>>,
      <<childEntry("Parameter", <<"a">>, <<"int">>, REMOVED),
        childEntry("Parameter", <<"b">>, <<"long">>, ADDED)>>,
      <<childEntry("Parameter", <<"a">>, <<"int">>, REMOVED),
        childEntry("Parameter", <<"b">>, <<"int">>, REMOVED),
        childEntry("Parameter", <<"b">>, <<"long">>, ADDED)>> }

\* the top-level entries of the file
DiffFileEntries ==
    { [qualifiedName |-> <<"f">>, nodeType |-> "Function", tag |-> ADDED],
      [qualifiedName |-> <<"f">>, nodeType |-> "Function", tag |-> REMOVED],
      [qualifiedName |-> <<"g">>, nodeType |-> "Function", tag |-> ADDED,
       children |-> <<childEntry("Parameter", <<"a">>, <<"int">>, ADDED)>>],
      [qualifiedName |-> <<"g">>, nodeType |-> "Function"],
      [qualifiedName |-> <<"v">>, nodeType |-> "Variable",
       dataType |-> <<"int">>, tag |-> ADDED],
      [nodeType |-> "Variable", dataType |-> <<"int">>, tag |-> REMOVED] }
    \cup { [qualifiedName |-> <<"f">>, nodeType |-> "Function",
            children |-> children, tag |-> MODIFIED] : children \in FunctionChildren }
    \cup { [qualifiedName |-> <<"f">>, nodeType |-> "Variable",
            children |-> children, tag |-> MODIFIED] : children \in PointerChildren }

\* report_generator(diff_json_path, ...): the difference array is read from
\* the file, nothing was normalized or compared in this run
InitReport ==
    /\ pc = "diffed"
    /\ hashOrder \in MultimapOrders
    /\ roots1 = <<>> /\ tree1 = EmptyObject /\ excludeNodes1 = {}
    /\ roots2 = <<>> /\ tree2 = EmptyObject /\ excludeNodes2 = {}
    /\ diffs \in SeqsUpTo(DiffFileEntries, MaxEntries)
    /\ headerPath \in HeaderPaths
    /\ processed = <<>> /\ grouped = <<>>
    /\ InitBuilder
    /\ InitSession
    /\ InitTypeUnwrapper

NextReport == ReportGenerator

SpecReport == InitReport /\ [][NextReport]_vars

---------------------------------------------------------------------------
(* The type unwrapper *)

MaxLayers == 3

Level(class, quals) == [class |-> class, quals |-> quals]

\* the levels a type is wrapped in: pointers with and without qualifiers of
\* their own, references, parentheses, arrays and typedef names (whose
\* underlying type is the levels that follow)
WrapperLevels ==
    {Level("Pointer", quals) : quals \in {{}, {"const"}, {"restrict"}}}
    \cup {Level(class, {}) :
             class \in {"LValueReference", "RValueReference", "Paren", "ConstantArray"}}
    \cup {Level("Typedef", quals) : quals \in {{}, {"const"}}}

TerminalLevels ==
    {Level("Builtin", quals) : quals \in {{}, {"const"}, {"const", "volatile"}}}

References == {"LValueReference", "RValueReference"}

\* a reference is the outermost level of a type: there is no pointer to a
\* reference, no array of references and no reference to a reference
WellFormedType(levels) ==
    \A i \in DOMAIN levels : levels[i].class \in References => i = 1

TypeArguments ==
    {NullType}
    \cup {wrappers \o <<terminal>> :
             wrappers \in {w \in SeqsUpTo(WrapperLevels, MaxLayers) : WellFormedType(w)},
             terminal \in TerminalLevels}

\* the tokens pushed for the local qualifiers, in the order of the tests
qualifierTokens(quals) ==
    (IF "const" \in quals THEN <<"const ">> ELSE <<>>)
    \o (IF "volatile" \in quals THEN <<"volatile ">> ELSE <<>>)
    \o (IF "restrict" \in quals THEN <<"restrict ">> ELSE <<>>)

\* TL.getUnqualifiedLoc() / type.getUnqualifiedType()
Unqualified(type) == <<Level(type[1].class, {})>> \o Tail(type)

ArrayClasses ==
    {"ConstantArray", "IncompleteArray", "VariableArray", "DependentSizedArray"}

\* the token the switch pushes for the class, none for the other classes
classToken(class) ==
    IF class = "Pointer" THEN <<"*">>
    ELSE IF class = "LValueReference" THEN <<"&">>
    ELSE IF class = "RValueReference" THEN <<"&&">>
    ELSE <<>>

\* a faulty switch: without the case of the parenthesised type
peeledWithoutParen(class) ==
    class \in {"Pointer", "LValueReference", "RValueReference"} \cup ArrayClasses

\* the classes a case of the switch peels
peeledBySwitch(class) ==
    class \in {"Pointer", "LValueReference", "RValueReference", "Paren"} \cup ArrayClasses

\* one iteration of the loop of unwrapTypeLoc on a type that is not null
unwrapTypeLocIteration(typeLoc, pushed) ==
    LET quals == typeLoc[1].quals
        unqualified == IF quals # {} THEN Unqualified(typeLoc) ELSE typeLoc
        class == unqualified[1].class
    IN  [TL |-> IF peeledBySwitch(class) THEN Tail(unqualified) ELSE unqualified,
         modifiers |-> pushed \o qualifierTokens(quals) \o classToken(class),
         unwrappedThisIteration |-> quals # {} \/ peeledBySwitch(class)]

RECURSIVE Reversed(_)
Reversed(seq) == IF seq = <<>> THEN <<>> ELSE Reversed(Tail(seq)) \o <<Head(seq)>>

\* a faulty join: the modifiers are appended from the front
joinedFromFront(pushed) == pushed

\* the modifiers popped from the back and appended to the result buffer
joinedFromBack(pushed) == Reversed(pushed)

\* the type without the sugar it is written in: getAs<>, isPointerType and
\* getAsArrayTypeUnsafe look through typedef names and their qualifiers
RECURSIVE Desugared(_)
Desugared(type) ==
    IF type[1].class = "Typedef" THEN Desugared(Tail(type)) ELSE type

\* one iteration of the loop of unwrapType on a type that is not null
unwrapTypeIteration(type) ==
    IF type[1].quals # {}
    THEN [type |-> Unqualified(type), unwrappedThisIteration |-> TRUE]
    ELSE LET class == Desugared(type)[1].class
         IN  IF class \in {"Paren", "Pointer", "LValueReference", "RValueReference"}
                          \cup ArrayClasses
             THEN [type |-> Tail(Desugared(type)), unwrappedThisIteration |-> TRUE]
             ELSE [type |-> type, unwrappedThisIteration |-> FALSE]

\* a call of one of the two functions with a type of the header
InitTypes ==
    /\ InitJob /\ InitBuilder /\ InitSession
    /\ unwrapPc \in {"unwrapTypeLoc", "unwrapType"}
    /\ argument \in TypeArguments
    /\ TL = argument
    /\ modifiers = <<>>
    /\ unwrapped = [prefix |-> <<>>, terminal |-> NullType]

\* unwrapTypeLoc: an iteration that peeled something, the loop goes on
UnwrapTypeLocIteration ==
    /\ unwrapPc = "unwrapTypeLoc"
    /\ TL # NullType
    /\ LET iteration == unwrapTypeLocIteration(TL, modifiers)
       IN  /\ iteration.unwrappedThisIteration
           /\ TL' = iteration.TL
           /\ modifiers' = iteration.modifiers
    /\ UNCHANGED <<unwrapPc, argument, unwrapped, jobVars, builderVars, sessionVars>>

\* unwrapTypeLoc: a null type, or the iteration that peels nothing: the loop
\* is left, the modifiers are joined and the pair is returned
UnwrapTypeLocReturn ==
    /\ unwrapPc = "unwrapTypeLoc"
    /\ IF TL = NullType THEN TRUE
       ELSE ~unwrapTypeLocIteration(TL, modifiers).unwrappedThisIteration
    /\ unwrapped' = [prefix |-> joinedFromBack(modifiers), terminal |-> TL]
    /\ modifiers' = <<>>
    /\ unwrapPc' = "unwrapTypeLoc returned"
    /\ UNCHANGED <<argument, TL, jobVars, builderVars, sessionVars>>

\* unwrapType: an iteration that removed the qualifiers or peeled a layer
UnwrapTypeIteration ==
    /\ unwrapPc = "unwrapType"
    /\ TL # NullType
    /\ LET iteration == unwrapTypeIteration(TL)
       IN  /\ iteration.unwrappedThisIteration
           /\ TL' = iteration.type
    /\ UNCHANGED <<unwrapPc, argument, modifiers, unwrapped, jobVars, builderVars,
                   sessionVars>>

\* unwrapType: a null type, or the iteration that breaks: the type is returned
UnwrapTypeReturn ==
    /\ unwrapPc = "unwrapType"
    /\ IF TL = NullType THEN TRUE
       ELSE ~unwrapTypeIteration(TL).unwrappedThisIteration
    /\ unwrapped' = [prefix |-> <<>>, terminal |-> TL]
    /\ unwrapPc' = "unwrapType returned"
    /\ UNCHANGED <<argument, TL, modifiers, jobVars, builderVars, sessionVars>>

NextTypes ==
    \/ UnwrapTypeLocIteration
    \/ UnwrapTypeLocReturn
    \/ UnwrapTypeIteration
    \/ UnwrapTypeReturn

SpecTypes == InitTypes /\ [][NextTypes]_vars

\* a call that is running takes its next step
SpecTypesFair == SpecTypes /\ WF_vars(NextTypes)

---------------------------------------------------------------------------
(* QualifiedNameBuilder *)

\* a faulty push: the offset is recorded after the separator is appended
pushOffsetAfterSeparator(q, Name) ==
    [buffer |-> IF q.buffer # <<>> THEN q.buffer \o <<SEP>> \o Name ELSE Name,
     offsets |-> Append(q.offsets,
                        IF q.buffer # <<>> THEN Len(q.buffer) + 1 ELSE Len(q.buffer))]

\* a faulty push: the separator is appended whatever the buffer holds
pushAlwaysSeparated(q, Name) ==
    [buffer |-> q.buffer \o <<SEP>> \o Name, offsets |-> Append(q.offsets, Len(q.buffer))]

push(q, Name) ==
    [buffer |-> IF q.buffer # <<>> THEN q.buffer \o <<SEP>> \o Name ELSE Name,
     offsets |-> Append(q.offsets, Len(q.buffer))]

pop(q) ==
    IF q.offsets # <<>>
    THEN [buffer |-> SubSeq(q.buffer, 1, q.offsets[Len(q.offsets)]),
          offsets |-> SubSeq(q.offsets, 1, Len(q.offsets) - 1)]
    ELSE q

get(q) == q.buffer

getAsString(q) == get(q)

\* the builder on its own: any sequence of push and pop calls
MaxScopes == 3

ScopeNames == {<<>>, <<"C">>, <<"v">>, <<"C", SEP, "v">>, <<"w">>}

QPush ==
    /\ Len(qualifiedNames.offsets) < MaxScopes
    /\ \E Name \in ScopeNames : qualifiedNames' = push(qualifiedNames, Name)
    /\ UNCHANGED <<arena, m_normalizedTree, m_rootApiNodes, nodeStack, openRecords, namespaces,
                   jobVars, sessionVars, typeVars>>

QPop ==
    /\ qualifiedNames' = pop(qualifiedNames)
    /\ UNCHANGED <<arena, m_normalizedTree, m_rootApiNodes, nodeStack, openRecords, namespaces,
                   jobVars, sessionVars, typeVars>>

NextNames == QPush \/ QPop

SpecNames == Init /\ [][NextNames]_vars

---------------------------------------------------------------------------
(* The normalized context on its own: any sequence of calls of its        *)
(* mutating operations.  A node is the reference a shared_ptr holds, 0    *)
(* the empty shared_ptr.                                                  *)

MaxNodes == 2

TreeKeys == {<<"v">>, <<"C">>, <<"C", SEP, "v">>}

CtxAddNode ==
    /\ \E key \in TreeKeys, node \in 1..MaxNodes :
          m_normalizedTree' = addNode(m_normalizedTree, key, node)
    /\ UNCHANGED <<arena, m_rootApiNodes, qualifiedNames, nodeStack, openRecords, namespaces,
                   jobVars, sessionVars, typeVars>>

CtxAddOrUpdateNode ==
    /\ \E key \in TreeKeys, node \in 1..MaxNodes :
          m_normalizedTree' = addOrUpdateNode(m_normalizedTree, key, node)
    /\ UNCHANGED <<arena, m_rootApiNodes, qualifiedNames, nodeStack, openRecords, namespaces,
                   jobVars, sessionVars, typeVars>>

CtxAddRootNode ==
    /\ Len(m_rootApiNodes) < MaxRoots
    /\ \E rootNode \in 0..MaxNodes :
          m_rootApiNodes' = addRootNode(m_rootApiNodes, rootNode)
    /\ UNCHANGED <<arena, m_normalizedTree, qualifiedNames, nodeStack, openRecords, namespaces,
                   jobVars, sessionVars, typeVars>>

NextTreeMap == CtxAddNode \/ CtxAddOrUpdateNode \/ CtxAddRootNode

SpecTreeMap == Init /\ [][NextTreeMap]_vars

---------------------------------------------------------------------------
(* The session and the action factory.  A context is referred to by the   *)
(* pointer the session holds, 0 is the null pointer.                      *)

MaxActions == 2

FileNames == {<<"v1/mylib.h">>, <<"v2/mylib.h">>, <<"other.h">>}

\* APISession::getContext: the context of the file, null when there is none
getContext(session, fileName) ==
    IF fileName \in DOMAIN session THEN session[fileName] ELSE 0

\* a faulty factory: the action is created whatever getContext returns
createUnchecked(session, fileName) ==
    [what |-> EmptyString,
     action |-> <<[context |-> getContext(session, fileName)]>>]

\* NormalizeActionFactory::create: the exception thrown and the action
\* returned, each empty when there is none
create(session, fileName) ==
    LET contextForThisFile == getContext(session, fileName)
    IN  IF contextForThisFile = 0
        THEN [what |-> <<"No ASTNormalizedContext was created for file: ">> \o fileName,
              action |-> <<>>]
        ELSE [what |-> EmptyString,
              action |-> <<[context |-> contextForThisFile]>>]

\* the session creates the context of one more file
SessionCreateContext ==
    /\ thrown = EmptyString
    /\ \E fileName \in FileNames \ DOMAIN sessionContexts :
          sessionContexts' =
              (fileName :> Cardinality(DOMAIN sessionContexts) + 1) @@ sessionContexts
    /\ UNCHANGED <<frontendActions, thrown, jobVars, builderVars, typeVars>>

\* NormalizeActionFactory(session, fileName).create(); the exception is
\* not caught, so nothing runs after it
FactoryCreate(fileName) ==
    /\ thrown = EmptyString
    /\ Len(frontendActions) < MaxActions
    /\ frontendActions' = frontendActions \o create(sessionContexts, fileName).action
    /\ thrown' = create(sessionContexts, fileName).what
    /\ UNCHANGED <<sessionContexts, jobVars, builderVars, typeVars>>

NextSession ==
    SessionCreateContext \/ \E fileName \in FileNames : FactoryCreate(fileName)

SpecSession == Init /\ [][NextSession]_vars

---------------------------------------------------------------------------
(* The tree builder, one declaration at a time *)

MaxDecls == 4

MaxDepth == 2

ValueNames == {<<"v">>, <<"w">>}

RecordNames == {<<"C">>}

\* the name of a declaration in the current scope
GetCurrentQualifiedName(q, name) ==
    IF get(q) = <<>> THEN name ELSE get(q) \o <<SEP>> \o name

\* the key the front-end assigns: one per entity, none when it has none
frontEndUSR(qualifiedName, hasUSR) == IF hasUSR THEN qualifiedName ELSE EmptyString

\* TreeBuilder::AddNode, the arena after the call: the node is created and
\* appended to the children of the innermost open scope
AddNodeArena(nodes, stack, node) ==
    LET created == Append(nodes, node)
    IN  IF stack = <<>> THEN created
        ELSE [created EXCEPT ![stack[Len(stack)]].children = Append(@, Len(created))]

\* TreeBuilder::AddNode, the tree map after the call: the node is registered
\* under its USR, a node without one is not registered
AddNodeTree(tree, node, ref) ==
    IF node.USR = EmptyString THEN tree ELSE addNode(tree, node.USR, ref)

\* TreeBuilder::AddNode, the roots after the call
AddNodeRoots(roots, stack, ref) ==
    IF stack = <<>> THEN addRootNode(roots, ref) ELSE roots

\* VisitVarDecl / VisitFieldDecl: a declaration without a scope of its own
BuildValueDecl(kind) ==
    /\ Len(arena) < MaxDecls
    /\ \E name \in ValueNames, hasUSR \in BOOLEAN :
          LET qn == GetCurrentQualifiedName(qualifiedNames, name)
              node == APINode(kind, qn, <<"int">>, <<>>, frontEndUSR(qn, hasUSR), <<>>)
          IN  /\ arena' = AddNodeArena(arena, nodeStack, node)
              /\ m_normalizedTree' = AddNodeTree(m_normalizedTree, node, Len(arena) + 1)
              /\ m_rootApiNodes' = AddNodeRoots(m_rootApiNodes, nodeStack, Len(arena) + 1)
    /\ UNCHANGED <<qualifiedNames, nodeStack, openRecords, namespaces,
                   jobVars, sessionVars, typeVars>>

\* a declaration is visited unless a record whose visit returned false is
\* being left: the inherited traversal does not descend into such a record
visiting == IF openRecords = <<>> THEN TRUE ELSE openRecords[Len(openRecords)].traversed

BuildVarDecl == nodeStack = <<>> /\ visiting /\ BuildValueDecl("Variable")

BuildFieldDecl == nodeStack # <<>> /\ visiting /\ BuildValueDecl("Field")

\* VisitCXXRecordDecl of a record of the main header: the record is added
\* and its scope is opened, the inherited traversal goes on with the members
BuildCXXRecordNode ==
    /\ Len(arena) < MaxDecls
    /\ Len(nodeStack) < MaxDepth
    /\ visiting
    /\ \E name \in RecordNames, hasUSR \in BOOLEAN :
          LET qn == GetCurrentQualifiedName(qualifiedNames, name)
              node == APINode("Class", qn, <<>>, <<>>, frontEndUSR(qn, hasUSR), <<>>)
          IN  /\ arena' = AddNodeArena(arena, nodeStack, node)
              /\ m_normalizedTree' = AddNodeTree(m_normalizedTree, node, Len(arena) + 1)
              /\ m_rootApiNodes' = AddNodeRoots(m_rootApiNodes, nodeStack, Len(arena) + 1)
              /\ qualifiedNames' = push(qualifiedNames, name)
              /\ nodeStack' = Append(nodeStack, Len(arena) + 1)
              /\ openRecords' = Append(openRecords,
                    [name |-> name, node |-> Len(arena) + 1, traversed |-> TRUE])
    /\ UNCHANGED <<namespaces, jobVars, sessionVars, typeVars>>

\* VisitCXXRecordDecl of a record that is not of the main header: nothing is
\* added or pushed, the visit returns false and so does the inherited traversal
RejectCXXRecordDecl ==
    /\ visiting
    /\ \E name \in RecordNames :
          openRecords' = Append(openRecords,
              [name |-> name, node |-> 0, traversed |-> FALSE])
    /\ UNCHANGED <<arena, m_normalizedTree, m_rootApiNodes, qualifiedNames, nodeStack,
                   namespaces, jobVars, sessionVars, typeVars>>

\* PopName after every traversal, whatever it returned
PopNameAlways(traversed, q) == pop(q)

\* PopName after a traversal that returned true, nothing after one that did not
PopNameIfTraversed(traversed, q) == IF traversed THEN pop(q) ELSE q

\* PopNode after a traversal that returned true, nothing after one that did not
PopNodeIfTraversed(traversed, stack) ==
    IF traversed THEN SubSeq(stack, 1, Len(stack) - 1) ELSE stack

\* TraverseCXXRecordDecl after the inherited traversal returned
TraverseCXXRecordDecl ==
    /\ openRecords # <<>>
    /\ LET traversed == openRecords[Len(openRecords)].traversed
       IN  /\ qualifiedNames' = PopNameIfTraversed(traversed, qualifiedNames)
           /\ nodeStack' = PopNodeIfTraversed(traversed, nodeStack)
    /\ openRecords' = SubSeq(openRecords, 1, Len(openRecords) - 1)
    /\ UNCHANGED <<arena, m_normalizedTree, m_rootApiNodes, namespaces,
                   jobVars, sessionVars, typeVars>>

\* the namespaces of a translation unit: N declares x, M declares x and y
NamespaceDecls ==
    { [name |-> <<"N">>, members |-> <<(<<"x">>)>>],
      [name |-> <<"M">>, members |-> <<(<<"x">>), (<<"y">>)>>] }

\* the traversal RecursiveASTVisitor provides: every member is traversed
inheritedNamespaceTraversal(namespaceDecl) == namespaceDecl.members

\* the members the override goes into before it returns true: none
traversedMembers(namespaceDecl) == <<>>

\* VisitVarDecl on each of the declarations, in order
RECURSIVE visitVarDecls(_, _)
visitVarDecls(context, names) ==
    IF names = <<>> THEN context
    ELSE LET qn == GetCurrentQualifiedName(qualifiedNames, Head(names))
             node == APINode("Variable", qn, <<"int">>, <<>>, qn, <<>>)
             ref == Len(context.arena) + 1
         IN  visitVarDecls(
                 [arena |-> AddNodeArena(context.arena, nodeStack, node),
                  tree |-> AddNodeTree(context.tree, node, ref),
                  roots |-> AddNodeRoots(context.roots, nodeStack, ref)],
                 Tail(names))

\* TraverseNamespaceDecl of a namespace of the translation unit: the call
\* returns true, no visit is made and no member is traversed
TraverseNamespaceDecl ==
    /\ openRecords = <<>>
    /\ \E namespaceDecl \in NamespaceDecls :
          LET after == visitVarDecls(
                  [arena |-> arena, tree |-> m_normalizedTree, roots |-> m_rootApiNodes],
                  traversedMembers(namespaceDecl))
          IN  /\ arena' = after.arena
              /\ m_normalizedTree' = after.tree
              /\ m_rootApiNodes' = after.roots
              /\ namespaces' = namespaces \cup {namespaceDecl}
    /\ UNCHANGED <<qualifiedNames, nodeStack, openRecords, jobVars, sessionVars, typeVars>>

NextContext ==
    \/ TraverseNamespaceDecl
    \/ BuildVarDecl
    \/ BuildFieldDecl
    \/ BuildCXXRecordNode
    \/ RejectCXXRecordDecl
    \/ TraverseCXXRecordDecl

SpecContext == Init /\ [][NextContext]_vars

---------------------------------------------------------------------------
(* Records of a difference tree *)

Range(seq) == {seq[i] : i \in DOMAIN seq}

Count(seq, x) == Cardinality({i \in DOMAIN seq : seq[i] = x})

SameBag(s, t) == \A x \in Range(s) \cup Range(t) : Count(s, x) = Count(t, x)

\* every record of a difference tree, at every depth, with the tag it
\* stands under: its own, or the one inherited from the record it is in
RECURSIVE recordsUnder(_, _)
recordsUnder(js, inherited) ==
    FlattenSeq([i \in DOMAIN js |->
        LET tag == Value(js[i], TAG, inherited)
        IN  <<[record |-> js[i], tag |-> tag]>>
            \o recordsUnder(Value(js[i], CHILDREN, <<>>), tag)])

allRecords(js) == recordsUnder(js, "")

---------------------------------------------------------------------------
(* C1 Reflexivity: diffTrees of a context against itself, under any       *)
(* exclusion sets, returns the empty array.                               *)
C1_Reflexivity ==
    (pc = "diffed" /\ roots1 = roots2 /\ tree1 = tree2) => diffs = <<>>

---------------------------------------------------------------------------
\* the exclusion set of the context a record's node belongs to holds its
\* name: base for a removed node and for the base node a modified record
\* is named after, head for an added node
ownerExcludes(r) ==
    LET qn == Value(r.record, QUALIFIED_NAME, EmptyString)
    IN  IF r.tag = ADDED THEN qn \in excludeNodes2 ELSE qn \in excludeNodes1

(* C2 Exclusion: no record at any depth of the diffTrees output carries a *)
(* qualifiedName that is in the exclusion set of the context its node     *)
(* belongs to.                                                            *)
C2_Exclusion ==
    pc = "diffed" => \A r \in Range(allRecords(diffs)) : ~ownerExcludes(r)

---------------------------------------------------------------------------
\* the key the specification gives a child: the signature of a Function,
\* the qualified name of any other kind
specKey(node) == node[getKeyExtractor(node)]

\* no two children of the sequence have the same specified key
distinctKeys(children) ==
    \A i, j \in DOMAIN children :
        (i # j /\ children[i].kind = children[j].kind)
            => specKey(children[i]) # specKey(children[j])

hasCounterpart(node, others) ==
    \E j \in DOMAIN others :
        others[j].kind = node.kind /\ specKey(others[j]) = specKey(node)

\* one root on each side, the same name, both with children, not excluded
singleMatchedPair ==
    /\ Len(roots1) = 1 /\ Len(roots2) = 1
    /\ roots1[1].qualifiedName = roots2[1].qualifiedName
    /\ roots1[1].qualifiedName \notin excludeNodes1
    /\ roots1[1].qualifiedName \in DOMAIN tree2
    /\ tree2[roots1[1].qualifiedName] = roots2[1]
    /\ hasChildren(roots1[1]) /\ hasChildren(roots2[1])

\* the children of the modified record diffNodes wrapped for the pair
pairChildrenDiff == IF diffs = <<>> THEN <<>> ELSE Value(diffs[1], CHILDREN, <<>>)

\* several Function children share one qualified name and differ in signature
severalOverloads(children) ==
    \E i, j \in DOMAIN children :
        /\ i # j
        /\ children[i].kind = "Function" /\ children[j].kind = "Function"
        /\ children[i].qualifiedName = children[j].qualifiedName
        /\ children[i].dataType # children[j].dataType

\* the child of the other side with the same specified key
counterpart(node, others) ==
    others[CHOOSE j \in DOMAIN others :
              others[j].kind = node.kind /\ specKey(others[j]) = specKey(node)]

(* C3 Overload matching: when the children of a matched pair hold several *)
(* Functions of one qualified name and different signatures on both       *)
(* sides, each base child is compared with the head child of the same key *)
(* (signature for a Function, qualified name otherwise), and a child is   *)
(* reported removed (added) exactly when its key has no counterpart on    *)
(* the other side.                                                        *)
C3_OverloadMatching ==
    (pc = "diffed" /\ singleMatchedPair
        /\ severalOverloads(roots1[1].children) /\ severalOverloads(roots2[1].children)
        /\ distinctKeys(roots1[1].children) /\ distinctKeys(roots2[1].children))
    => /\ \A i \in DOMAIN roots1[1].children :
              LET m == roots1[1].children[i]
              IN  (get_json_from_node(m, REMOVED) \in Range(pairChildrenDiff))
                      <=> ~hasCounterpart(m, roots2[1].children)
       /\ \A i \in DOMAIN roots2[1].children :
              LET m == roots2[1].children[i]
              IN  (get_json_from_node(m, ADDED) \in Range(pairChildrenDiff))
                      <=> ~hasCounterpart(m, roots1[1].children)
       /\ LET paired == SelectSeq(roots1[1].children,
                                  LAMBDA m : hasCounterpart(m, roots2[1].children))
          IN  SameBag(SelectSeq(pairChildrenDiff, LAMBDA j : Value(j, TAG, "") = MODIFIED),
                      FlattenSeq([i \in DOMAIN paired |->
                          spliced(diffNodes(paired[i],
                                            counterpart(paired[i], roots2[1].children),
                                            tree1, tree2))]))

---------------------------------------------------------------------------
ownTag(j) == Value(j, TAG, "")

withoutTag(j) == [k \in DOMAIN j \ {TAG} |-> j[k]]

\* the records of a difference tree that carry the tag, at every depth,
\* without the tag
taggedRecords(js, tag) ==
    LET all == allRecords(js)
        sel == SelectSeq(all, LAMBDA r : ownTag(r.record) = tag)
    IN  [i \in DOMAIN sel |-> withoutTag(sel[i].record)]

modifiedIdentities(js) ==
    LET m == taggedRecords(js, MODIFIED)
    IN  {<<Value(m[i], QUALIFIED_NAME, EmptyString), Value(m[i], NODE_TYPE, "")>> :
            i \in DOMAIN m}

(* C5 Anti-symmetry: the added records of diffTrees(A, B) are, one to one, *)
(* the removed records of diffTrees(B, A) and vice versa, at every depth,  *)
(* and the modified records of both name the same nodes.                   *)
C5_AntiSymmetry ==
    pc = "diffed" =>
        LET reverse == diffTrees(roots2, roots1, tree2, tree1,
                                 excludeNodes2, excludeNodes1)
        IN  /\ SameBag(taggedRecords(diffs, ADDED), taggedRecords(reverse, REMOVED))
            /\ SameBag(taggedRecords(diffs, REMOVED), taggedRecords(reverse, ADDED))
            /\ modifiedIdentities(diffs) = modifiedIdentities(reverse)

---------------------------------------------------------------------------
baseRootRemoved(r) ==
    r.qualifiedName \notin excludeNodes1 /\ r.qualifiedName \notin DOMAIN tree2

baseRootMatched(r) ==
    r.qualifiedName \notin excludeNodes1 /\ r.qualifiedName \in DOMAIN tree2

headRootAdded(r) ==
    r.qualifiedName \notin excludeNodes2 /\ r.qualifiedName \notin DOMAIN tree1

(* C6 Root phase: the output holds one removed record (full subtree) per  *)
(* non-excluded base root whose name is absent from the head's tree map,  *)
(* one added record (full subtree) per non-excluded head root whose name  *)
(* is absent from the base's tree map, the result of diffNodes for every  *)
(* non-excluded base root matched in the head's tree map, and nothing     *)
(* else.                                                                  *)
C6_RootPhase ==
    pc = "diffed" =>
        LET rem == SelectSeq(roots1, baseRootRemoved)
            add == SelectSeq(roots2, headRootAdded)
            mat == SelectSeq(roots1, baseRootMatched)
        IN  SameBag(diffs,
                [i \in DOMAIN rem |-> (TAG :> REMOVED) @@ toJson(rem[i])]
                \o [i \in DOMAIN add |-> (TAG :> ADDED) @@ toJson(add[i])]
                \o FlattenSeq([i \in DOMAIN mat |->
                       spliced(diffNodes(mat[i], tree2[mat[i].qualifiedName],
                                         tree1, tree2))]))

\* a removed root, an added root, a matched root with a difference and an
\* excluded root in one run
C6_Witness ==
    /\ pc = "diffed"
    /\ \E i \in DOMAIN roots1 : baseRootRemoved(roots1[i])
    /\ \E i \in DOMAIN roots2 : headRootAdded(roots2[i])
    /\ \E i \in DOMAIN roots1 :
          /\ baseRootMatched(roots1[i])
          /\ spliced(diffNodes(roots1[i], tree2[roots1[i].qualifiedName],
                               tree1, tree2)) # <<>>
    /\ Len(diffs) >= 3

---------------------------------------------------------------------------
\* the atomic records that come from one top-level entry
recordsOf(entry) == describeChange(entry, headerPath)

topLevelAdded(entry) == Value(entry, TAG, "") = ADDED

(* C4 Compatibility consistency: an atomic record is Functionality_changed *)
(* exactly when it comes from a top-level entry tagged added, every other  *)
(* record is Compatibility_changed, and compatibility is                   *)
(* backward_compatible exactly for Functionality_changed.                  *)
C4_CompatibilityConsistency ==
    pc = "reported" =>
        /\ \A i \in DOMAIN diffs : \A r \in Range(recordsOf(diffs[i])) :
              /\ r \in Range(processed)
              /\ r.changetype = (IF topLevelAdded(diffs[i])
                                 THEN "Functionality_changed"
                                 ELSE "Compatibility_changed")
        /\ \A r \in Range(processed) :
              /\ r.changetype \in {"Functionality_changed", "Compatibility_changed"}
              /\ r.compatibility = (IF r.changetype = "Functionality_changed"
                                    THEN "backward_compatible"
                                    ELSE "backward_incompatible")
        /\ Cardinality({i \in DOMAIN processed :
                           processed[i].changetype = "Functionality_changed"})
               = Cardinality({i \in DOMAIN diffs : topLevelAdded(diffs[i])})

\* a top-level addition next to a nested addition and a nested removal
C4_Witness ==
    /\ pc = "reported"
    /\ \E i \in DOMAIN diffs : topLevelAdded(diffs[i])
    /\ \E i \in DOMAIN diffs :
          /\ Value(diffs[i], TAG, "") = MODIFIED
          /\ \E j \in DOMAIN diffs[i].children :
                Value(diffs[i].children[j], TAG, "") = ADDED
    /\ \E r \in Range(processed) : r.changetype = "Functionality_changed"
    /\ \E r \in Range(processed) : r.changetype = "Compatibility_changed"

---------------------------------------------------------------------------
modifiedFunction(entry) ==
    Value(entry, NODE_TYPE, "") = "Function" /\ Value(entry, TAG, "") = MODIFIED

\* the direct Parameter children of an entry with the tag, in child order
directParams(entry, tag) ==
    SelectSeq(Value(entry, CHILDREN, <<>>),
              LAMBDA ch : Value(ch, NODE_TYPE, "") = "Parameter" /\ Value(ch, TAG, "") = tag)

descriptionsOf(entry) ==
    [i \in DOMAIN recordsOf(entry) |-> recordsOf(entry)[i].description]

paramLeaf(p) == nameLeaf(Value(p, QUALIFIED_NAME, EmptyString))

paramType(p) == Value(p, DATA_TYPE, EmptyString)

renamedText(r, a) ==
    <<"Parameter renamed from '">> \o paramLeaf(r) \o <<"' to '">> \o paramLeaf(a)
        \o <<"' (type '">> \o paramType(r) \o <<"')">>

removedText(r) ==
    <<"Parameter '">> \o paramLeaf(r) \o <<"' removed (type '">> \o paramType(r) \o <<"')">>

addedText(a) ==
    <<"Parameter '">> \o paramLeaf(a) \o <<"' added (type '">> \o paramType(a) \o <<"')">>

(* C7 Parameter rename: under a top-level modified Function, every direct *)
(* removed Parameter and direct added Parameter of identical dataType get  *)
(* one record "Parameter renamed from ... to ... (type T)" and no separate *)
(* removed or added record.                                                *)
C7_ParameterRename ==
    pc = "reported" =>
        \A i \in DOMAIN diffs : modifiedFunction(diffs[i]) =>
            \A r \in Range(directParams(diffs[i], REMOVED)),
               a \in Range(directParams(diffs[i], ADDED)) :
                paramType(r) = paramType(a) =>
                    /\ Count(descriptionsOf(diffs[i]), renamedText(r, a)) = 1
                    /\ removedText(r) \notin Range(descriptionsOf(diffs[i]))
                    /\ addedText(a) \notin Range(descriptionsOf(diffs[i]))

\* the parameters of one type among the sequence, in order
ofType(params, T) == SelectSeq(params, LAMBDA p : paramType(p) = T)

(* C7 as the code has it: among the direct removed and added Parameters   *)
(* of one non-empty dataType, the k-th removed is paired with the k-th     *)
(* added; a pair gets one rename record and no removed or added record, a  *)
(* Parameter left without a partner gets one removed or added record and    *)
(* no rename record.                                                       *)
C7_RenamePairing ==
    pc = "reported" =>
        \A i \in DOMAIN diffs : modifiedFunction(diffs[i]) =>
            LET removed == directParams(diffs[i], REMOVED)
                added == directParams(diffs[i], ADDED)
                descs == descriptionsOf(diffs[i])
            IN  \A T \in {paramType(p) : p \in Range(removed) \cup Range(added)} :
                    LET rs == ofType(removed, T)
                        as == ofType(added, T)
                        paired(k) == T # EmptyString /\ k <= Len(rs) /\ k <= Len(as)
                    IN  /\ \A k \in DOMAIN rs :
                              IF paired(k)
                              THEN /\ Count(descs, renamedText(rs[k], as[k])) = 1
                                   /\ removedText(rs[k]) \notin Range(descs)
                              ELSE /\ Count(descs, removedText(rs[k])) = 1
                                   /\ \A a \in Range(added) :
                                         renamedText(rs[k], a) \notin Range(descs)
                        /\ \A k \in DOMAIN as :
                              IF paired(k)
                              THEN addedText(as[k]) \notin Range(descs)
                              ELSE /\ Count(descs, addedText(as[k])) = 1
                                   /\ \A r \in Range(removed) :
                                         renamedText(r, as[k]) \notin Range(descs)

\* two removed parameters compete for one added parameter of their type
C7_Witness ==
    /\ pc = "reported"
    /\ \E i \in DOMAIN diffs :
          /\ modifiedFunction(diffs[i])
          /\ Len(directParams(diffs[i], REMOVED)) = 2
          /\ Len(directParams(diffs[i], ADDED)) = 1
          /\ \A r \in Range(directParams(diffs[i], REMOVED)) :
                paramType(r) = paramType(directParams(diffs[i], ADDED)[1])
          /\ Len(descriptionsOf(diffs[i])) = 2

---------------------------------------------------------------------------
rowKey(row) == <<row.headerfile, row.name>>

(* C8 Grouping: there is exactly one grouped record per distinct           *)
(* (headerfile, name) of the atomic records; it is "Compatibility Changed" *)
(* and backward_incompatible when a contributor is Compatibility_changed,  *)
(* else "Functionality Added" and backward_compatible; its description is  *)
(* the contributors' non-empty descriptions joined by newlines in input    *)
(* order.                                                                  *)
C8_Grouping ==
    pc = "reported" =>
        /\ {rowKey(grouped[n]) : n \in DOMAIN grouped}
               = {rowKey(processed[i]) : i \in DOMAIN processed}
        /\ \A m, n \in DOMAIN grouped :
              rowKey(grouped[m]) = rowKey(grouped[n]) => m = n
        /\ \A n \in DOMAIN grouped :
              LET from == SelectSeq(processed,
                              LAMBDA row : rowKey(row) = rowKey(grouped[n]))
                  texts == SelectSeq([i \in DOMAIN from |-> from[i].description],
                                     LAMBDA d : d # EmptyString)
                  any == \E i \in DOMAIN from :
                             from[i].changetype = "Compatibility_changed"
              IN  /\ grouped[n].changetype
                         = (IF any THEN "Compatibility Changed" ELSE "Functionality Added")
                  /\ grouped[n].compatibility
                         = (IF any THEN "backward_incompatible" ELSE "backward_compatible")
                  /\ grouped[n].description = joinLines(texts)

\* two APIs in the report, one of them with several atomic records
C8_Witness ==
    /\ pc = "reported"
    /\ Len(grouped) >= 2
    /\ Len(processed) > Len(grouped)
    /\ \E n \in DOMAIN grouped : grouped[n].changetype = "Functionality Added"
    /\ \E n \in DOMAIN grouped : grouped[n].changetype = "Compatibility Changed"

---------------------------------------------------------------------------
\* the nodes reachable from the set in at most n steps through children
RECURSIVE reachable(_, _)
reachable(S, n) ==
    IF n = 0 THEN S
    ELSE reachable(S \cup UNION {Range(arena[i].children) : i \in S}, n - 1)

reachableFromRoots == reachable(Range(m_rootApiNodes), Len(arena))

inTreeMap(ref) == \E key \in DOMAIN m_normalizedTree : m_normalizedTree[key] = ref

(* C10 Context invariant: at every point of tree building, every node      *)
(* reachable from a root, the root itself and all its descendants through  *)
(* children, is present in the context's normalized tree map.              *)
C10_ContextInvariant == \A ref \in reachableFromRoots : inTreeMap(ref)

---------------------------------------------------------------------------
\* what a reader recovers from a record: the kind whose string the record
\* carries, the two strings (empty when the key is absent) and the children
\* in array order
RECURSIVE readBack(_)
readBack(j) ==
    [kind |-> CHOOSE k \in NodeKind : serialize(k) = Value(j, NODE_TYPE, ""),
     qualifiedName |-> Value(j, QUALIFIED_NAME, EmptyString),
     dataType |-> Value(j, DATA_TYPE, EmptyString),
     children |-> LET c == Value(j, CHILDREN, <<>>)
                  IN  [i \in DOMAIN c |-> readBack(c[i])]]

\* the same four attributes of a node tree
RECURSIVE shapeOf(_)
shapeOf(node) ==
    [kind |-> node.kind,
     qualifiedName |-> node.qualifiedName,
     dataType |-> node.dataType,
     children |-> [i \in DOMAIN node.children |-> shapeOf(node.children[i])]]

RECURSIVE depthOf(_)
depthOf(node) ==
    IF node.children = <<>> THEN 1
    ELSE 1 + SetMax({depthOf(node.children[i]) : i \in DOMAIN node.children})

(* C11 Serialisation round trip: reading kind, qualifiedName, dataType and *)
(* the children in order back from toJson of a node tree gives the tree's *)
(* own values at every depth; this holds for every root of both headers   *)
(* and for the full-subtree record the diff emits for a removed or added  *)
(* root.                                                                  *)
C11_RoundTrip ==
    /\ \A r \in Range(roots1) \cup Range(roots2) :
          /\ r.kind \in NodeKind
          /\ readBack(toJson(r)) = shapeOf(r)
    /\ pc = "diffed" =>
          /\ \A r \in Range(roots1) : baseRootRemoved(r) =>
                \E i \in DOMAIN diffs :
                    ownTag(diffs[i]) = REMOVED /\ readBack(diffs[i]) = shapeOf(r)
          /\ \A r \in Range(roots2) : headRootAdded(r) =>
                \E i \in DOMAIN diffs :
                    ownTag(diffs[i]) = ADDED /\ readBack(diffs[i]) = shapeOf(r)

\* a removed class of two member functions, one with a parameter: three
\* levels, a node without dataType and children whose order matters
C11_Witness ==
    /\ pc = "diffed"
    /\ \E r \in Range(roots1) :
          /\ baseRootRemoved(r)
          /\ depthOf(r) = 3
          /\ r.dataType = EmptyString
          /\ Len(r.children) = 2
          /\ r.children[1] # r.children[2]
          /\ \E i \in DOMAIN diffs :
                ownTag(diffs[i]) = REMOVED /\ readBack(diffs[i]) = shapeOf(r)

---------------------------------------------------------------------------
(* C12 Exact undo: in every state of the QualifiedNameBuilder and for     *)
(* every name X, the builder after push(X) and then pop() has the buffer  *)
(* and the offsets it had before the push.                                *)
C12_ExactUndo ==
    \A X \in ScopeNames : pop(push(qualifiedNames, X)) = qualifiedNames

\* the builder holds two scopes, the name pushed last is in the buffer
\* behind a separator, and a further push changes buffer and offsets before
\* the pop takes them back
C12_Witness ==
    /\ Len(qualifiedNames.offsets) = 2
    /\ get(qualifiedNames) = <<"C", SEP, "v">>
    /\ qualifiedNames.offsets = <<0, 1>>
    /\ \A X \in ScopeNames :
          /\ push(qualifiedNames, X).buffer # qualifiedNames.buffer
          /\ push(qualifiedNames, X).offsets # qualifiedNames.offsets
          /\ pop(push(qualifiedNames, X)) = qualifiedNames

---------------------------------------------------------------------------
\* some entry of the tree map is gone or holds another node after the step
entryOverwritten ==
    \E k \in DOMAIN m_normalizedTree :
        k \notin DOMAIN m_normalizedTree' \/ m_normalizedTree'[k] # m_normalizedTree[k]

\* what addNode(key, node) does to the tree map as it is now
addNodeEffect(key, node) ==
    LET tree == m_normalizedTree
        after == addNode(tree, key, node)
    IN  IF key \in DOMAIN tree
        THEN after = tree /\ addNodeResult(tree, key) = FALSE
        ELSE /\ addNodeResult(tree, key) = TRUE
             /\ DOMAIN after = DOMAIN tree \cup {key}
             /\ after[key] = node
             /\ \A k \in DOMAIN tree : after[k] = tree[k]

(* C13 addNode never replaces: with the key already in the tree map the   *)
(* map is unchanged and false is returned, with the key absent the node   *)
(* is inserted under it and true is returned; a step of the context that  *)
(* changes or drops an existing entry is a step of addOrUpdateNode.       *)
C13_AddNodeKeepsEntries ==
    /\ [](\A key \in TreeKeys, node \in 1..MaxNodes : addNodeEffect(key, node))
    /\ [][CtxAddNode => ~entryOverwritten]_vars
    /\ [][entryOverwritten => CtxAddOrUpdateNode]_vars

\* the map holds a key under one node and addNode is called with that key
\* and another node, next to a key that is still absent
C13_Witness ==
    /\ \E key \in DOMAIN m_normalizedTree, node \in 1..MaxNodes :
          /\ m_normalizedTree[key] # node
          /\ addNode(m_normalizedTree, key, node) = m_normalizedTree
          /\ addOrUpdateNode(m_normalizedTree, key, node) # m_normalizedTree
    /\ \E key \in TreeKeys \ DOMAIN m_normalizedTree :
          addNode(m_normalizedTree, key, 1) # m_normalizedTree
    /\ m_rootApiNodes # <<>>

---------------------------------------------------------------------------
(* C14 Missing context is fatal: a call of create for a file without a    *)
(* context in the session throws and adds no action; a call for a file    *)
(* with a context throws nothing and adds one action bound to exactly     *)
(* that context; and after a throw nothing further happens.               *)
C14_MissingContextFatal ==
    /\ [][\A fileName \in FileNames :
             FactoryCreate(fileName) =>
                IF fileName \in DOMAIN sessionContexts
                THEN /\ thrown' = EmptyString
                     /\ frontendActions' =
                            Append(frontendActions, [context |-> sessionContexts[fileName]])
                ELSE /\ thrown' # EmptyString
                     /\ frontendActions' = frontendActions]_vars
    /\ [](\A i \in DOMAIN frontendActions :
             \E fileName \in DOMAIN sessionContexts :
                 frontendActions[i].context = sessionContexts[fileName])
    /\ [][thrown # EmptyString => UNCHANGED vars]_vars

\* create has returned an action for one file and has thrown for another
\* one, which has no context
C14_Witness ==
    /\ frontendActions # <<>>
    /\ DOMAIN sessionContexts # {}
    /\ \E fileName \in FileNames \ DOMAIN sessionContexts :
          thrown = <<"No ASTNormalizedContext was created for file: ">> \o fileName

---------------------------------------------------------------------------
\* the pairs of nodes diffNodes is called for under the pair (a, b): the
\* pair itself and, level by level, the common children it recurses into
RECURSIVE comparedUnder(_, _)
comparedUnder(a, b) ==
    {<<a, b>>}
    \cup IF hasChildren(a) /\ hasChildren(b)
         THEN LET common == intersection(a.children, b.children, byQualifiedName)
              IN  UNION {comparedUnder(common[i].first, common[i].second) :
                            i \in DOMAIN common}
         ELSE {}

\* every pair diffNodes is called for in this run
comparedPairs ==
    UNION {comparedUnder(r, tree2[r.qualifiedName]) :
              r \in {x \in Range(roots1) : baseRootMatched(x)}}

\* the records diffNodes accumulates for a pair whose nodes have children
accumulatedFor(a, b) ==
    LET removed == difference(a.children, b.children, byQualifiedName)
        added == difference(b.children, a.children, byQualifiedName)
        common == intersection(a.children, b.children, byQualifiedName)
    IN  [i \in DOMAIN removed |-> (TAG :> REMOVED) @@ toJson(removed[i])]
        \o [i \in DOMAIN added |-> (TAG :> ADDED) @@ toJson(added[i])]
        \o FlattenSeq([i \in DOMAIN common |->
                spliced(diffNodes(common[i].first, common[i].second, tree1, tree2))])
        \o spliced(APINodeDiff(a, b))

\* the modified record of the pair: name and kind of a, tag modified, and
\* as children exactly the accumulated records, at least one
wrapsAccumulated(record, a, b) ==
    /\ DOMAIN record = {QUALIFIED_NAME, NODE_TYPE, CHILDREN, TAG}
    /\ record[TAG] = MODIFIED
    /\ record[QUALIFIED_NAME] = a.qualifiedName
    /\ record[NODE_TYPE] = a.kind
    /\ record[CHILDREN] # <<>>
    /\ SameBag(record[CHILDREN], accumulatedFor(a, b))

(* C15 as claimed: for a pair whose nodes both have children diffNodes    *)
(* returns an array, empty or holding exactly one record, the modified    *)
(* record that wraps the accumulated records.                             *)
C15_ArrayOfOneRecord ==
    \A p \in comparedPairs :
        (hasChildren(p[1]) /\ hasChildren(p[2])) =>
            LET result == diffNodes(p[1], p[2], tree1, tree2)
            IN  /\ result.is_array
                /\ Len(result.value) <= 1
                /\ result.value # <<>> => wrapsAccumulated(result.value[1], p[1], p[2])

(* C15 Shape of the result: for a pair whose nodes both have children     *)
(* diffNodes returns either the empty array or one record, the object     *)
(* itself and not an array around it; the record is tagged modified, has  *)
(* the qualified name and the kind of a, and its children are exactly the *)
(* accumulated records, at least one.  Its callers append that record to  *)
(* their own array, so a matched root contributes it to the difference    *)
(* tree.                                                                  *)
C15_SingleRecord ==
    \A p \in comparedPairs :
        (hasChildren(p[1]) /\ hasChildren(p[2])) =>
            LET result == diffNodes(p[1], p[2], tree1, tree2)
            IN  /\ \/ result = json_array(<<>>)
                   \/ ~result.is_array /\ wrapsAccumulated(result.value, p[1], p[2])
                /\ (pc = "diffed" /\ p[1] \in Range(roots1) /\ result.value # <<>>)
                      => result.value \in Range(diffs)

\* a matched pair with a removed child, an added child, a common pair that
\* differs and an attribute difference of its own, and one without any
C15_Witness ==
    /\ pc = "diffed"
    /\ \E p \in comparedPairs :
          /\ hasChildren(p[1]) /\ hasChildren(p[2])
          /\ difference(p[1].children, p[2].children, byQualifiedName) # <<>>
          /\ difference(p[2].children, p[1].children, byQualifiedName) # <<>>
          /\ \E q \in comparedUnder(p[1], p[2]) \ {p} :
                spliced(diffNodes(q[1], q[2], tree1, tree2)) # <<>>
          /\ spliced(APINodeDiff(p[1], p[2])) # <<>>
          /\ ~diffNodes(p[1], p[2], tree1, tree2).is_array
          /\ Len(diffNodes(p[1], p[2], tree1, tree2).value[CHILDREN]) >= 5
          /\ diffNodes(p[1], p[2], tree1, tree2).value \in Range(diffs)

---------------------------------------------------------------------------
\* the records, at every depth, that name the node
recordsNaming(js, node) ==
    LET all == allRecords(js)
    IN  {i \in DOMAIN all :
            /\ Value(all[i].record, QUALIFIED_NAME, EmptyString) = node.qualifiedName
            /\ Value(all[i].record, NODE_TYPE, "") = node.kind}

(* C16 Pairs without children on a side: when a or b has no children,     *)
(* diffNodes returns the attribute diff a.diff(b) as it is, and no record *)
(* of the result names a child of the side that has children; a matched   *)
(* root of that shape contributes the attribute diff and nothing else to  *)
(* the difference tree.                                                   *)
C16_AttributeDiffOnly ==
    \A p \in comparedPairs :
        (p[1].children = <<>> \/ p[2].children = <<>>) =>
            LET result == diffNodes(p[1], p[2], tree1, tree2)
            IN  /\ result = APINodeDiff(p[1], p[2])
                /\ \A c \in Range(p[1].children) \cup Range(p[2].children) :
                       recordsNaming(spliced(result), c) = {}
                /\ (pc = "diffed" /\ roots1 = <<p[1]>> /\ roots2 = <<p[2]>>)
                      => diffs = spliced(APINodeDiff(p[1], p[2]))

\* a class without members in the base has members in the head, and the
\* difference tree is empty
C16_Witness ==
    /\ pc = "diffed"
    /\ Len(roots1) = 1 /\ Len(roots2) = 1
    /\ <<roots1[1], roots2[1]>> \in comparedPairs
    /\ roots1[1].children = <<>>
    /\ Len(roots2[1].children) = 2
    /\ diffNodes(roots1[1], roots2[1], tree1, tree2) = APINodeDiff(roots1[1], roots2[1])
    /\ diffs = <<>>

---------------------------------------------------------------------------
(* C17 Child partition: for a pair whose nodes both have children, every  *)
(* child of a is in exactly one of removed and common and every child of  *)
(* b in exactly one of added and common; a child is removed (added)       *)
(* exactly when its key, the signature of a Function and the qualified    *)
(* name of any other kind, has no counterpart among the children of the   *)
(* other side; and each common pair holds one child of a and one child of *)
(* b of equal keys.                                                       *)
C17_ChildPartition ==
    \A p \in comparedPairs :
        (hasChildren(p[1]) /\ hasChildren(p[2])) =>
            LET a == p[1]
                b == p[2]
                removed == difference(a.children, b.children, byQualifiedName)
                added == difference(b.children, a.children, byQualifiedName)
                common == intersection(a.children, b.children, byQualifiedName)
            IN  /\ SameBag(a.children,
                           removed \o [i \in DOMAIN common |-> common[i].first])
                /\ SameBag(b.children,
                           added \o [i \in DOMAIN common |-> common[i].second])
                /\ \A x \in Range(a.children) :
                       x \in Range(removed) <=> ~hasCounterpart(x, b.children)
                /\ \A y \in Range(b.children) :
                       y \in Range(added) <=> ~hasCounterpart(y, a.children)
                /\ \A i \in DOMAIN common :
                       /\ common[i].first.kind = common[i].second.kind
                       /\ specKey(common[i].first) = specKey(common[i].second)

---------------------------------------------------------------------------
\* the modified records the describer of a non-Function entry visits: the
\* entry and, level by level, its children tagged modified
RECURSIVE describedModified(_)
describedModified(node) ==
    IF ownTag(node) # MODIFIED THEN {}
    ELSE LET children == Value(node, CHILDREN, <<>>)
         IN  {node} \cup UNION {describedModified(children[i]) : i \in DOMAIN children}

\* a removed child and an added child of the record with the same
\* (qualifiedName, nodeType)
exactPairs(record) ==
    LET children == Value(record, CHILDREN, <<>>)
    IN  {<<children[i], children[j]>> : i, j \in DOMAIN children} \cap
        {p \in Range(children) \X Range(children) :
            /\ ownTag(p[1]) = REMOVED /\ ownTag(p[2]) = ADDED
            /\ Value(p[1], QUALIFIED_NAME, EmptyString) = Value(p[2], QUALIFIED_NAME, EmptyString)
            /\ Value(p[1], NODE_TYPE, "") = Value(p[2], NODE_TYPE, "")}

\* the line the specification gives a pair
claimedLine(r, a) ==
    Str(Value(r, NODE_TYPE, "")) \o <<" '">> \o Value(r, QUALIFIED_NAME, EmptyString)
        \o <<"' type changed from '">> \o Value(r, DATA_TYPE, EmptyString)
        \o <<"' to '">> \o Value(a, DATA_TYPE, EmptyString) \o <<"'">>

\* the line of a pair: the name shown for a ReturnType is the qualified
\* name without its last component, and a pair without both types is a
\* plain modification
pairLine(r, a) ==
    LET kind == Value(r, NODE_TYPE, "")
        qn == Value(r, QUALIFIED_NAME, EmptyString)
        shown == IF kind = "ReturnType" /\ rfindSep(qn) > 0
                 THEN SubSeq(qn, 1, rfindSep(qn) - 1) ELSE qn
        dtR == Value(r, DATA_TYPE, EmptyString)
        dtA == Value(a, DATA_TYPE, EmptyString)
    IN  IF dtR # EmptyString /\ dtA # EmptyString
        THEN Str(kind) \o <<" '">> \o shown \o <<"' type changed from '">>
                 \o dtR \o <<"' to '">> \o dtA \o <<"'">>
        ELSE Str(kind) \o <<" modified: '">> \o shown \o <<"'">>

removalLine(r) ==
    presenceLine(Value(r, NODE_TYPE, ""), " removed: '",
                 Value(r, QUALIFIED_NAME, EmptyString), Value(r, DATA_TYPE, EmptyString))

additionLine(a) ==
    presenceLine(Value(a, NODE_TYPE, ""), " added: '",
                 Value(a, QUALIFIED_NAME, EmptyString), Value(a, DATA_TYPE, EmptyString))

\* the top-level entries of the difference tree that are not Functions
nonFunctionEntries == {i \in DOMAIN diffs : Value(diffs[i], NODE_TYPE, "") # "Function"}

\* every exact pair under the entry is described by the line and by no
\* removal or addition line, and the lines are the description of the
\* entry's atomic record
describedBy(i, line(_, _)) ==
    LET lines == describe_non_function_recursive(diffs[i])
    IN  /\ \A m \in describedModified(diffs[i]) : \A p \in exactPairs(m) :
               /\ Count(lines, line(p[1], p[2])) = 1
               /\ removalLine(p[1]) \notin Range(lines)
               /\ additionLine(p[2]) \notin Range(lines)
        /\ lines # <<>> =>
               \E k \in DOMAIN processed :
                   /\ processed[k].name = Value(diffs[i], QUALIFIED_NAME, <<"Unknown">>)
                   /\ processed[k].description = joinLines(lines)

(* C18 as claimed: under a modified non-Function entry every removed      *)
(* child with an added sibling of the same (qualifiedName, nodeType) is   *)
(* described by the one line "<Kind> '<qn>' type changed from 'a' to 'b'" *)
(* and by no removal or addition line.                                    *)
C18_TypeChangedLine ==
    pc = "reported" => \A i \in nonFunctionEntries : describedBy(i, claimedLine)

(* C18 Exact pairs: under a modified non-Function entry every removed     *)
(* child with an added sibling of the same (qualifiedName, nodeType) is   *)
(* described by one line and by no removal or addition line; the line is  *)
(* "<Kind> '<name>' type changed from 'a' to 'b'" when both types are     *)
(* non-empty and "<Kind> modified: '<name>'" otherwise, the name being    *)
(* the qualified name, without its last component for a ReturnType.       *)
C18_ExactPairLine ==
    pc = "reported" => \A i \in nonFunctionEntries : describedBy(i, pairLine)

\* a class whose member function changed its return type
C18_Witness ==
    /\ pc = "reported"
    /\ \E i \in nonFunctionEntries :
          \E m \in describedModified(diffs[i]) : \E p \in exactPairs(m) :
              /\ Value(p[1], NODE_TYPE, "") = "ReturnType"
              /\ Value(p[1], DATA_TYPE, EmptyString) # Value(p[2], DATA_TYPE, EmptyString)
              /\ pairLine(p[1], p[2]) \in Range(describe_non_function_recursive(diffs[i]))
              /\ \E k \in DOMAIN processed :
                    processed[k].description = pairLine(p[1], p[2])

---------------------------------------------------------------------------
\* the record declarations in traversal whose visit opened a scope
openScopes == SelectSeq(openRecords, LAMBDA frame : frame.traversed)

\* the name stack after the names were pushed in order on an empty builder
RECURSIVE pushAll(_)
pushAll(names) ==
    IF names = <<>> THEN [buffer |-> <<>>, offsets |-> <<>>]
    ELSE push(pushAll(SubSeq(names, 1, Len(names) - 1)), names[Len(names)])

---------------------------------------------------------------------------
functionEntry(entry, tag) ==
    Value(entry, NODE_TYPE, "") = "Function" /\ Value(entry, TAG, "") = tag

\* the rows the three inspections of a modified Function entry produce: of
\* its modified Parameter and ReturnType children, of its attribute
\* snapshots and of its directly added and removed parameters
inspectionRows(entry) ==
    LET api_name == Value(entry, QUALIFIED_NAME, <<"Unknown">>)
        children == Value(entry, CHILDREN, <<>>)
        snapshots(tag) == SelectSeq(children, LAMBDA ch : functionEntry(ch, tag))
        last(seq) == IF seq = <<>> THEN EmptyObject ELSE seq[Len(seq)]
        nested == SelectSeq(children, LAMBDA ch :
                      /\ Value(ch, NODE_TYPE, "") \in {"Parameter", "ReturnType"}
                      /\ Value(ch, TAG, "") = MODIFIED)
    IN  FlattenSeq([i \in DOMAIN nested |->
                       diff_nested_mod_node(headerPath, api_name, nested[i])])
        \o (IF snapshots(REMOVED) # <<>> \/ snapshots(ADDED) # <<>>
            THEN diff_function_attributes(headerPath, api_name,
                                          last(snapshots(REMOVED)), last(snapshots(ADDED)))
            ELSE <<>>)
        \o (IF directParams(entry, ADDED) # <<>> \/ directParams(entry, REMOVED) # <<>>
            THEN diff_direct_param_nodes(headerPath, api_name,
                                         directParams(entry, REMOVED),
                                         directParams(entry, ADDED))
            ELSE <<>>)

functionRecord(entry, description, changetype, compatibility) ==
    [headerfile |-> headerPath,
     name |-> Value(entry, QUALIFIED_NAME, <<"Unknown">>),
     description |-> description,
     changetype |-> changetype,
     compatibility |-> compatibility]

\* the rows of entries[i], i in 1..n, in the order of the entries
RECURSIVE recordsOfAll(_, _)
recordsOfAll(entries, n) ==
    IF n = 0 THEN <<>> ELSE recordsOfAll(entries, n - 1) \o recordsOf(entries[n])

(* C20 Function entries: every top-level Function entry of the difference  *)
(* array yields at least one atomic record. An added one yields exactly    *)
(* the record 'Function added', Functionality_changed and                  *)
(* backward_compatible; a removed one exactly the record 'Function         *)
(* removed', Compatibility_changed; a modified one for which no attribute, *)
(* parameter or return-type row is produced exactly the record 'Function   *)
(* modified'. The atomic records of the report are those of the entries,   *)
(* in order.                                                               *)
C20_FunctionEntries ==
    pc = "reported" =>
        /\ processed = recordsOfAll(diffs, Len(diffs))
        /\ \A i \in DOMAIN diffs :
              LET entry == diffs[i]
              IN  /\ Value(entry, NODE_TYPE, "") = "Function" => recordsOf(entry) # <<>>
                  /\ functionEntry(entry, ADDED) =>
                        recordsOf(entry) =
                            <<functionRecord(entry, <<"Function added">>,
                                  "Functionality_changed", "backward_compatible")>>
                  /\ functionEntry(entry, REMOVED) =>
                        recordsOf(entry) =
                            <<functionRecord(entry, <<"Function removed">>,
                                  "Compatibility_changed", "backward_incompatible")>>
                  /\ functionEntry(entry, MODIFIED) /\ inspectionRows(entry) = <<>> =>
                        recordsOf(entry) =
                            <<functionRecord(entry, <<"Function modified">>,
                                  "Compatibility_changed", "backward_incompatible")>>
                  /\ functionEntry(entry, MODIFIED) /\ inspectionRows(entry) # <<>> =>
                        Len(recordsOf(entry)) = Len(inspectionRows(entry))

\* a report of an added and of a modified function, the modified one with a
\* child that no inspection turns into a row
C20_Witness ==
    /\ pc = "reported"
    /\ \E i \in DOMAIN diffs : functionEntry(diffs[i], ADDED)
    /\ \E i \in DOMAIN diffs :
          /\ functionEntry(diffs[i], MODIFIED)
          /\ Value(diffs[i], CHILDREN, <<>>) # <<>>
          /\ inspectionRows(diffs[i]) = <<>>
    /\ \E r \in Range(processed) : r.description = <<"Function modified">>
    /\ \E r \in Range(processed) : r.description = <<"Function added">>

\* a report of a removed function
C20_WitnessRemoved ==
    /\ pc = "reported"
    /\ \E i \in DOMAIN diffs : functionEntry(diffs[i], REMOVED)
    /\ \E r \in Range(processed) : r.description = <<"Function removed">>

---------------------------------------------------------------------------
\* the part of a name after its last separator, the whole name without one
afterLastSeparator(qn) ==
    LET starts == {i \in 1..(Len(qn) + 1) :
                      /\ i = 1 \/ qn[i - 1] = SEP
                      /\ \A j \in i..Len(qn) : qn[j] # SEP}
    IN  SubSeq(qn, SetMax(starts), Len(qn))

\* the Parameter and ReturnType children of an entry tagged modified that
\* have a removed and an added grandchild, in child order
nestedModified(entry) ==
    SelectSeq(Value(entry, CHILDREN, <<>>), LAMBDA ch :
        /\ Value(ch, NODE_TYPE, "") \in {"Parameter", "ReturnType"}
        /\ Value(ch, TAG, "") = MODIFIED
        /\ \E g \in Range(Value(ch, CHILDREN, <<>>)) : Value(g, TAG, "") = REMOVED
        /\ \E g \in Range(Value(ch, CHILDREN, <<>>)) : Value(g, TAG, "") = ADDED)

\* the one grandchild of the child with the tag
grandchild(ch, tag) ==
    CHOOSE g \in Range(Value(ch, CHILDREN, <<>>)) : Value(g, TAG, "") = tag

nestedLine(ch) ==
    LET a == Value(grandchild(ch, REMOVED), DATA_TYPE, EmptyString)
        b == Value(grandchild(ch, ADDED), DATA_TYPE, EmptyString)
        leaf == afterLastSeparator(
                    Value(grandchild(ch, REMOVED), QUALIFIED_NAME, EmptyString))
    IN  IF Value(ch, NODE_TYPE, "") = "ReturnType"
        THEN <<"Return type changed from '">> \o a \o <<"' to '">> \o b \o <<"'">>
        ELSE Str(Value(ch, NODE_TYPE, "")) \o <<" '">> \o leaf
                 \o <<"' type changed from '">> \o a \o <<"' to '">> \o b \o <<"'">>

(* C21 Nested modification: under a top-level modified Function, every     *)
(* Parameter or ReturnType child tagged modified that has a removed and an *)
(* added grandchild yields exactly one record, "Return type changed from   *)
(* 'a' to 'b'" for a ReturnType and "<Kind> '<leaf>' type changed from 'a' *)
(* to 'b'" otherwise, a and b being the removed and the added dataType and *)
(* the leaf the part of the removed qualifiedName after the last           *)
(* separator. These records are the first of the entry, one per child in   *)
(* child order, and no other record of the entry has such a description.   *)
C21_NestedModification ==
    pc = "reported" =>
        \A i \in DOMAIN diffs :
            modifiedFunction(diffs[i]) =>
                LET nested == nestedModified(diffs[i])
                    described == descriptionsOf(diffs[i])
                IN  /\ Len(described) >= Len(nested)
                    /\ \A k \in DOMAIN nested : described[k] = nestedLine(nested[k])
                    /\ \A k \in DOMAIN described :
                          k > Len(nested) =>
                              /\ described[k][1] # "Return type changed from '"
                              /\ \A j \in DOMAIN described[k] :
                                    described[k][j] # "' type changed from '"

\* a reported function with a modified return type and a modified parameter
C21_Witness ==
    /\ pc = "reported"
    /\ \E i \in DOMAIN diffs :
          /\ modifiedFunction(diffs[i])
          /\ \E k \in DOMAIN nestedModified(diffs[i]) :
                nestedModified(diffs[i])[k].nodeType = "ReturnType"
          /\ \E k \in DOMAIN nestedModified(diffs[i]) :
                /\ nestedModified(diffs[i])[k].nodeType = "Parameter"
                /\ SEP \in Range(nestedModified(diffs[i])[k].qualifiedName)

---------------------------------------------------------------------------
\* the two nodes agree in everything but their children
sameAttributes(a, b) ==
    /\ DOMAIN a = DOMAIN b
    /\ \A field \in DOMAIN a \ {"children"} : a[field] = b[field]

\* the children of b are the children of a in another order
reordered(a, b) ==
    /\ hasChildren(a)
    /\ SameBag(a.children, b.children)
    /\ a.children # b.children

C22_ReorderingOfDistinctNames ==
    pc = "diffed" =>
        \A i \in DOMAIN roots1, j \in DOMAIN roots2 :
            /\ sameAttributes(roots1[i], roots2[j])
            /\ reordered(roots1[i], roots2[j])
            /\ ~severalOverloads(roots1[i].children)
            => spliced(diffNodes(roots1[i], roots2[j], tree1, tree2)) = <<>>

\* a compared pair whose children have one qualified name each and are reordered
C22_ReorderedDistinctNames ==
    /\ pc = "diffed"
    /\ \E i \in DOMAIN roots1, j \in DOMAIN roots2 :
          /\ sameAttributes(roots1[i], roots2[j])
          /\ reordered(roots1[i], roots2[j])
          /\ ~severalOverloads(roots1[i].children)

---------------------------------------------------------------------------
\* the modifier token of a layer: "*", "&", "&&", none for a parenthesised
\* layer and for an array
modifierToken ==
    [class \in {"Pointer", "LValueReference", "RValueReference", "Paren", "ConstantArray"} |->
        IF class = "Pointer" THEN <<"*">>
        ELSE IF class = "LValueReference" THEN <<"&">>
        ELSE IF class = "RValueReference" THEN <<"&&">>
        ELSE <<>>]

\* a qualifier as the prefix holds it, followed by a space
spaced(qualifier) ==
    IF qualifier = "const" THEN "const "
    ELSE IF qualifier = "volatile" THEN "volatile " ELSE "restrict "

\* a token of the prefix without the space that follows it
bare(token) ==
    IF token = "const " THEN "const"
    ELSE IF token = "volatile " THEN "volatile"
    ELSE IF token = "restrict " THEN "restrict" ELSE token

qualifiersOf(level) ==
    SelectSeq(<<"const", "volatile", "restrict">>, LAMBDA q : q \in level.quals)

\* the modifier tokens of a type in the order they are peeled, from the
\* outermost level inwards, down to the first level that is no layer
RECURSIVE peelOrder(_)
peelOrder(levels) ==
    IF levels = <<>> THEN <<>>
    ELSE [i \in DOMAIN qualifiersOf(levels[1]) |-> spaced(qualifiersOf(levels[1])[i])]
         \o (IF levels[1].class \in DOMAIN modifierToken
             THEN modifierToken[levels[1].class] \o peelOrder(Tail(levels))
             ELSE <<>>)

\* the spelling of a type, token by token: a qualified name, a pointee
\* followed by "*" and the pointer's qualifiers, a referent followed by "&"
\* or "&&", an element type followed by "[]"
RECURSIVE spelling(_)
spelling(levels) ==
    IF levels = <<>> THEN <<>>
    ELSE LET level == levels[1]
         IN  IF level.class = "Builtin" THEN qualifiersOf(level) \o <<"int">>
             ELSE IF level.class = "Typedef" THEN qualifiersOf(level) \o <<"T">>
             ELSE IF level.class = "Paren" THEN <<"(">> \o spelling(Tail(levels)) \o <<")">>
             ELSE IF level.class = "ConstantArray" THEN spelling(Tail(levels)) \o <<"[]">>
             ELSE spelling(Tail(levels))
                  \o (IF level.class = "Pointer" THEN <<"*">>
                      ELSE IF level.class = "LValueReference" THEN <<"&">> ELSE <<"&&">>)
                  \o qualifiersOf(level)

\* the name of a terminal type
typeName(terminal) ==
    IF terminal = NullType THEN <<>>
    ELSE IF terminal[1].class = "Typedef" THEN <<"T">> ELSE <<"int">>

prefixInReversePeelOrder == unwrapped.prefix = Reversed(peelOrder(argument))

(* C23 Type-unwrapper prefix: the prefix unwrapTypeLoc returns is the      *)
(* concatenation of the modifier tokens it peeled (const, volatile,        *)
(* restrict, *, &, &&) in the reverse of the order in which they were      *)
(* peeled, a parenthesised layer and an array contributing no token, and   *)
(* the prefix followed by the name of the terminal type is the spelling of *)
(* the original type.                                                      *)
C23_PrefixSpelling ==
    unwrapPc = "unwrapTypeLoc returned" =>
        /\ prefixInReversePeelOrder
        /\ [i \in DOMAIN unwrapped.prefix |-> bare(unwrapped.prefix[i])]
               \o typeName(unwrapped.terminal) = spelling(argument)

\* the first half alone: the tokens and their order
C23_PrefixTokens == unwrapPc = "unwrapTypeLoc returned" => prefixInReversePeelOrder

\* a pointer behind parentheses and an array was unwrapped, with qualifiers
\* peeled before and after the pointer
C23_Witness ==
    /\ unwrapPc = "unwrapTypeLoc returned"
    /\ Len(unwrapped.prefix) >= 3
    /\ \E i, j \in DOMAIN argument :
          argument[i].class = "Paren" /\ argument[j].class = "ConstantArray"
    /\ unwrapped.terminal[1].class = "Builtin"

---------------------------------------------------------------------------
unwrapReturned == unwrapPc \in {"unwrapTypeLoc returned", "unwrapType returned"}

\* nothing can be peeled from the type: it has no local qualifier and is no
\* pointer, reference, parenthesised type or array
admitsNoPeel(type) ==
    \/ type = NullType
    \/ /\ type[1].quals = {}
       /\ type[1].class \notin {"Pointer", "LValueReference", "RValueReference",
                                "Paren", "ConstantArray", "IncompleteArray",
                                "VariableArray", "DependentSizedArray"}

(* C24 Type-unwrapper termination: a call of unwrapTypeLoc or unwrapType   *)
(* on a type of finitely many nested layers returns, and the terminal type *)
(* it returns admits no further peel: it carries no local qualifier and is *)
(* no pointer, l-value or r-value reference, parenthesised type or array;  *)
(* the terminal type of unwrapType is none of these behind a typedef name  *)
(* either.                                                                 *)
C24_Termination ==
    /\ <>unwrapReturned
    /\ [](unwrapReturned => admitsNoPeel(unwrapped.terminal))
    /\ [](unwrapPc = "unwrapType returned" /\ unwrapped.terminal # NullType
             => admitsNoPeel(<<Level(Desugared(unwrapped.terminal)[1].class, {})>>))

\* unwrapTypeLoc returned from a type of as many layers as the model has,
\* of which it peeled every one
C24_Witness ==
    /\ unwrapPc = "unwrapTypeLoc returned"
    /\ Len(argument) = MaxLayers + 1
    /\ Len(unwrapped.terminal) = 1
    /\ \E i \in DOMAIN argument : argument[i].class = "Paren"

\* unwrapType returned from a pointer type named by a typedef
C24_WitnessThroughTypedef ==
    /\ unwrapPc = "unwrapType returned"
    /\ Len(argument) > 2
    /\ argument[1].class = "Typedef"
    /\ argument[2].class = "Pointer"
    /\ Len(unwrapped.terminal) = 1

---------------------------------------------------------------------------
(* C25 Naming: get() on an empty scope stack returns the empty name;       *)
(* push(X) on an empty stack makes get() return exactly X, without a       *)
(* leading separator; push(X) on a non-empty name makes get() return the   *)
(* name, the separator and X.                                              *)
C25_Naming ==
    /\ [](qualifiedNames.offsets = <<>> => get(qualifiedNames) = EmptyString)
    /\ [](\A X \in ScopeNames :
             /\ qualifiedNames.offsets = <<>> => get(push(qualifiedNames, X)) = X
             /\ get(qualifiedNames) # EmptyString =>
                   get(push(qualifiedNames, X)) = get(qualifiedNames) \o <<SEP>> \o X)
    /\ [][QPush =>
            \E X \in ScopeNames :
                get(qualifiedNames') =
                    IF get(qualifiedNames) = EmptyString THEN X
                    ELSE get(qualifiedNames) \o <<SEP>> \o X]_vars

\* a name pushed on the empty stack, a second one behind it, and the stack
\* emptied again by two pops
C25_Witness ==
    /\ get(qualifiedNames) = <<"w", SEP, "C", SEP, "v">>
    /\ qualifiedNames.offsets = <<0, 1>>
    /\ get(pop(pop(qualifiedNames))) = EmptyString

---------------------------------------------------------------------------
\* the descriptions of the rows diff_direct_param_nodes emits for the entry
directParamRows(entry) ==
    LET rows == diff_direct_param_nodes(headerPath,
                    Value(entry, QUALIFIED_NAME, <<"Unknown">>),
                    directParams(entry, REMOVED), directParams(entry, ADDED))
    IN  [k \in DOMAIN rows |-> rows[k].detail]

\* the pairs <<removed position, added position>> a rename row is emitted for
renamedPairs(entry) ==
    {pair \in (DOMAIN directParams(entry, REMOVED)) \X (DOMAIN directParams(entry, ADDED)) :
        renamedText(directParams(entry, REMOVED)[pair[1]],
                    directParams(entry, ADDED)[pair[2]]) \in Range(directParamRows(entry))}

(* C26 Rename pairing is one-to-one: of the direct removed and the direct  *)
(* added Parameters of a modified Function, each appears in exactly one    *)
(* row of diff_direct_param_nodes: a rename row it shares with exactly one *)
(* partner, which has the same non-empty dataType, or a row of its own,    *)
(* 'Parameter ... removed' or 'Parameter ... added'. The rows number       *)
(* |removed| + |added| minus the number of rename pairs, and they are the  *)
(* last records of the entry.                                              *)
C26_OneToOnePairing ==
    pc = "reported" =>
        \A i \in DOMAIN diffs : modifiedFunction(diffs[i]) =>
            LET removed == directParams(diffs[i], REMOVED)
                added == directParams(diffs[i], ADDED)
                rows == directParamRows(diffs[i])
                pairs == renamedPairs(diffs[i])
                described == descriptionsOf(diffs[i])
            IN  /\ \A p, q \in pairs : (p[1] = q[1] \/ p[2] = q[2]) => p = q
                /\ \A p \in pairs :
                      /\ paramType(removed[p[1]]) = paramType(added[p[2]])
                      /\ paramType(removed[p[1]]) # EmptyString
                      /\ Count(rows, renamedText(removed[p[1]], added[p[2]])) = 1
                /\ \A r \in DOMAIN removed :
                      Count(rows, removedText(removed[r]))
                          = IF \E p \in pairs : p[1] = r THEN 0 ELSE 1
                /\ \A a \in DOMAIN added :
                      Count(rows, addedText(added[a]))
                          = IF \E p \in pairs : p[2] = a THEN 0 ELSE 1
                /\ Len(rows) = Len(removed) + Len(added) - Cardinality(pairs)
                /\ (removed # <<>> \/ added # <<>>) =>
                      /\ Len(described) >= Len(rows)
                      /\ SubSeq(described, Len(described) - Len(rows) + 1, Len(described))
                             = rows

\* two removed parameters compete for one added parameter of their type:
\* one pair and one parameter left without partner
C26_Witness ==
    /\ pc = "reported"
    /\ \E i \in DOMAIN diffs :
          /\ modifiedFunction(diffs[i])
          /\ Len(directParams(diffs[i], REMOVED)) = 2
          /\ Len(directParams(diffs[i], ADDED)) = 1
          /\ Cardinality(renamedPairs(diffs[i])) = 1
          /\ Len(directParamRows(diffs[i])) = 2

\* a function whose removed and added parameters differ in type: no pair
C26_WitnessUnpaired ==
    /\ pc = "reported"
    /\ \E i \in DOMAIN diffs :
          /\ modifiedFunction(diffs[i])
          /\ directParams(diffs[i], REMOVED) # <<>>
          /\ directParams(diffs[i], ADDED) # <<>>
          /\ renamedPairs(diffs[i]) = {}

---------------------------------------------------------------------------
\* a modified entry that is no Function and whose children are all tagged
\* added or removed
flatModified(entry) ==
    /\ Value(entry, NODE_TYPE, "") # "Function"
    /\ Value(entry, TAG, "") = MODIFIED
    /\ \A ch \in Range(Value(entry, CHILDREN, <<>>)) : Value(ch, TAG, "") \in {ADDED, REMOVED}

\* the line tells of a removed child paired with an added one
pairingLine(line) ==
    \E j \in DOMAIN line :
        line[j] \in {"' type changed from '", " modified: '", "Parameter modified: '"}

\* the line lists an added child
listsAddition(line) == \E j \in DOMAIN line : line[j] = " added: '"

taggedChildren(entry, tag) ==
    SelectSeq(Value(entry, CHILDREN, <<>>), LAMBDA ch : Value(ch, TAG, "") = tag)

linesOf(entry, test(_)) ==
    Len(SelectSeq(describe_non_function_recursive(entry), test))

C27_AddedDescribedOnceOneRemoved ==
    pc = "reported" =>
        \A i \in DOMAIN diffs :
            flatModified(diffs[i]) /\ Len(taggedChildren(diffs[i], REMOVED)) < 2 =>
                linesOf(diffs[i], pairingLine) + linesOf(diffs[i], listsAddition)
                    <= Len(taggedChildren(diffs[i], ADDED))

---------------------------------------------------------------------------
\* the qualified names of a sequence of nodes or records
namesOf(seq) == {Value(seq[i], QUALIFIED_NAME, EmptyString) : i \in DOMAIN seq}

\* the record was appended by the second loop of diffTrees: an added root
\* of the head that the base does not know
addedRoot(record) ==
    /\ Value(record, TAG, "") = ADDED
    /\ Value(record, QUALIFIED_NAME, EmptyString) \notin DOMAIN tree1

\* the positions in roots at which a root of the record's name stands
rootPositions(record, roots) ==
    {i \in DOMAIN roots :
        roots[i].qualifiedName = Value(record, QUALIFIED_NAME, EmptyString)}

\* some root named by the first record stands no later than some root named
\* by the second
inRootOrder(first, second, roots) ==
    \E i \in rootPositions(first, roots), j \in rootPositions(second, roots) : i <= j

\* where a child record of the modified record of the pair (a, b) stems
\* from: 1 a removed child of a, 2 an added child of b, 3 the diff of a
\* common pair, 4 the attribute diff of the pair itself
origin(record, a, b) ==
    LET name == Value(record, QUALIFIED_NAME, EmptyString)
        tag == Value(record, TAG, "")
    IN  IF name = a.qualifiedName THEN 4
        ELSE IF /\ tag = REMOVED
                /\ \E i \in DOMAIN a.children :
                       record = get_json_from_node(a.children[i], REMOVED)
             THEN 1
        ELSE IF /\ tag = ADDED
                /\ \E j \in DOMAIN b.children :
                       record = get_json_from_node(b.children[j], ADDED)
             THEN 2
        ELSE 3

\* the children of the record in the order of their origins, and the same
\* inside every modified child that stems from a pair of one name
RECURSIVE childrenInOriginOrder(_, _, _)
childrenInOriginOrder(record, a, b) ==
    LET children == Value(record, CHILDREN, <<>>)
    IN  /\ \A p, q \in DOMAIN children :
               p < q => origin(children[p], a, b) <= origin(children[q], a, b)
        /\ \A p \in DOMAIN children :
               origin(children[p], a, b) = 3 /\ Value(children[p], TAG, "") = MODIFIED =>
                   \A i \in DOMAIN a.children, j \in DOMAIN b.children :
                       /\ a.children[i].qualifiedName = children[p].qualifiedName
                       /\ b.children[j].qualifiedName = children[p].qualifiedName
                       /\ Cardinality(rootPositions(children[p], a.children)) = 1
                       /\ Cardinality(rootPositions(children[p], b.children)) = 1
                       => childrenInOriginOrder(children[p], a.children[i], b.children[j])

\* the modified record of a matched pair of roots that have children
modifiedRootRecord(i) ==
    IF /\ roots1[i].qualifiedName \notin excludeNodes1
       /\ roots1[i].qualifiedName \in DOMAIN tree2
    THEN LET b == tree2[roots1[i].qualifiedName]
         IN  IF hasChildren(roots1[i]) /\ hasChildren(b)
             THEN spliced(diffNodes(roots1[i], b, tree1, tree2))
             ELSE <<>>
    ELSE <<>>

(* C28 Output ordering of diffTrees: every record that stems from a base  *)
(* root (a removed root, or a record diffNodes returns for a matched      *)
(* root) stands before every added root of the head; the records of base  *)
(* roots stand in base-root order and the added roots in head-root order; *)
(* inside a modified record the removed children come first, then the     *)
(* added children, then the records of the common pairs, then the         *)
(* attribute diff of the node itself.                                     *)
C28_OutputOrdering ==
    pc = "diffed" =>
        /\ \A p, q \in DOMAIN diffs : p < q =>
              /\ ~(addedRoot(diffs[p]) /\ ~addedRoot(diffs[q]))
              /\ ~addedRoot(diffs[p]) /\ ~addedRoot(diffs[q])
                     => inRootOrder(diffs[p], diffs[q], roots1)
              /\ addedRoot(diffs[p]) /\ addedRoot(diffs[q])
                     => inRootOrder(diffs[p], diffs[q], roots2)
        /\ \A i \in DOMAIN roots1 : \A r \in Range(modifiedRootRecord(i)) :
              /\ \E p \in DOMAIN diffs : diffs[p] = r
              /\ childrenInOriginOrder(r, roots1[i], tree2[roots1[i].qualifiedName])

\* a removed root, the record of a matched root and an added root, in this
\* order
C28_Witness ==
    /\ pc = "diffed"
    /\ Len(diffs) = 3
    /\ Value(diffs[1], TAG, "") = REMOVED
    /\ Value(diffs[2], TAG, "") = MODIFIED
    /\ addedRoot(diffs[3])

\* a modified record that holds a removed child, an added child and the
\* record of a common pair
C28_WitnessChildren ==
    /\ pc = "diffed"
    /\ \E i \in DOMAIN roots1 : \E r \in Range(modifiedRootRecord(i)) :
          LET b == tree2[roots1[i].qualifiedName]
          IN  {1, 2, 3} \subseteq
                  {origin(Value(r, CHILDREN, <<>>)[p], roots1[i], b) :
                       p \in DOMAIN Value(r, CHILDREN, <<>>)}

\* a modified record that ends with the attribute diff of its node after
\* the record of a common pair
C28_WitnessAttributeDiffLast ==
    /\ pc = "diffed"
    /\ \E i \in DOMAIN roots1 : \E r \in Range(modifiedRootRecord(i)) :
          LET b == tree2[roots1[i].qualifiedName]
          IN  {3, 4} \subseteq
                  {origin(Value(r, CHILDREN, <<>>)[p], roots1[i], b) :
                       p \in DOMAIN Value(r, CHILDREN, <<>>)}

---------------------------------------------------------------------------
\* the names a namespace brings: its own and those of its members
namesOfNamespace(namespaceDecl) == {namespaceDecl.name} \cup Range(namespaceDecl.members)

\* the node is the namespace or a declaration nested inside it
nodeOfNamespace(node, namespaceDecl) ==
    \/ node.kind = "Namespace"
    \/ \E name \in namesOfNamespace(namespaceDecl) :
          \/ node.qualifiedName = name
          \/ node.qualifiedName = namespaceDecl.name \o <<SEP>> \o name

(* C29 Namespaces are opaque to the tree builder: the traversal of a      *)
(* namespace declaration returns without visiting any member; the step    *)
(* leaves the nodes, the tree map, the roots, the name stack and the node *)
(* stack as they were, and the context never holds a node for a namespace *)
(* that was traversed nor for a declaration nested inside it.             *)
C29_NamespacesOpaque ==
    /\ [][namespaces' # namespaces =>
              /\ arena' = arena
              /\ m_normalizedTree' = m_normalizedTree
              /\ m_rootApiNodes' = m_rootApiNodes
              /\ qualifiedNames' = qualifiedNames
              /\ nodeStack' = nodeStack]_vars
    /\ [](\A namespaceDecl \in namespaces :
              /\ \A ref \in DOMAIN arena : ~nodeOfNamespace(arena[ref], namespaceDecl)
              /\ \A key \in DOMAIN m_normalizedTree :
                     key \notin namesOfNamespace(namespaceDecl)
                     /\ ~nodeOfNamespace(arena[m_normalizedTree[key]], namespaceDecl))

\* a context with a variable and a class, after the traversal of the
\* namespace M that declares x and y
C29_Witness ==
    /\ \E namespaceDecl \in namespaces : Len(namespaceDecl.members) = 2
    /\ m_rootApiNodes # <<>>
    /\ \E ref \in DOMAIN arena : arena[ref].kind = "Class"
    /\ openRecords = <<>>

---------------------------------------------------------------------------
\* the record is one of the entry: it bears the entry's qualified name, or
\* Unknown when the entry has none, and the header path
recordOfEntry(record, entry) ==
    /\ record.name = (IF QUALIFIED_NAME \in DOMAIN entry
                      THEN entry[QUALIFIED_NAME] ELSE <<"Unknown">>)
    /\ record.headerfile = headerPath

\* the records are, entry by entry and in the order of the entries, one or
\* more records of the entry, and exactly one for an entry that is no
\* Function
RECURSIVE covers(_, _)
covers(records, entries) ==
    IF entries = <<>> THEN records = <<>>
    ELSE \E k \in 1..Len(records) :
            /\ Value(Head(entries), NODE_TYPE, "") # "Function" => k = 1
            /\ \A i \in 1..k : recordOfEntry(records[i], Head(entries))
            /\ covers(SubSeq(records, k + 1, Len(records)), Tail(entries))

(* C30 preprocess_api_changes covers every top-level entry: each entry of *)
(* the difference array yields at least one atomic record, an entry that  *)
(* is no Function yields exactly one, every record bears the qualified    *)
(* name of its entry (Unknown when the entry has none) and the given      *)
(* header path, and the records stand in the order of their entries.      *)
C30_EveryEntryCovered == pc = "reported" => covers(processed, diffs)

\* two entries, the first a modified Function with several records, the
\* second an entry without a qualified name
C30_Witness ==
    /\ pc = "reported"
    /\ Len(diffs) = 2
    /\ Value(diffs[1], NODE_TYPE, "") = "Function"
    /\ QUALIFIED_NAME \notin DOMAIN diffs[2]
    /\ Len(processed) > 2
    /\ processed[Len(processed)].name = <<"Unknown">>

====
